---- MODULE Spec2Model ----
(***************************************************************************)
(* A model of the remote orchestration layer of jira-xray-electron:        *)
(*   - JiraService: the p-limit concurrency gate around every axios call,  *)
(*     the response interceptor (handleError), validateIssue and           *)
(*     validateIssues (src/main/services/jiraService.ts);                  *)
(*   - the IPC handlers built on it (src/main/ipc/testHandlers.ts and the  *)
(*     earlier handler module that constructs a JiraService per call);     *)
(*   - the renderer-side IssueKeyValidator with its validation cache       *)
(*     (src/main/services/suggestionService.ts);                           *)
(*   - the renderer flows that create records, attach steps and link       *)
(*     (TestCasesTab, TestExecutionTab, TestSetsTab);                      *)
(*   - MetadataService: the per-type field descriptors and the list        *)
(*     getCommonFields builds (src/main/services/credentialService.ts);    *)
(*   - metadata initialization and the field lookup of an issue type over  *)
(*     the session handlers (initializeMetadata, getFieldsForIssueType,    *)
(*     src/main/ipc/authHandlers.ts).                                      *)
(*   - the cached priority, component and version lists and their getters  *)
(*     (JiraService.getPriorities, getComponents, getVersions);            *)
(*   - the field value transformers (FieldValueTransformer,                *)
(*     FieldMappingService.transformToJiraFormat, resolveFieldValue);      *)
(*   - the template store and its SAVE_TEMPLATE and DELETE_TEMPLATE        *)
(*     handlers.                                                           *)
(*                                                                         *)
(* JavaScript runs each continuation to its next await without             *)
(* interleaving, so one action is one such run: a handler invocation up to *)
(* its first await, or the arrival of a remote response together with the  *)
(* continuations it resumes.                                               *)
(***************************************************************************)
EXTENDS Integers, Sequences, FiniteSets, TLC

\* RATE_LIMITS.MAX_CONCURRENT_REQUESTS
MAX_CONCURRENT_REQUESTS == 5

\* ---------------------------------------------------------------- bounds
\* single-call handler invocations (LINK_ISSUES, VALIDATE_STORY, ...) in a run
MaxSingles == 6
\* identifiers in one VALIDATE_ISSUES request
MaxKeys == 5
\* VALIDATE_ISSUES requests in a run
MaxBatches == 1

\* ------------------------------------------------------- transport errors
\* What axios rejects with before the response interceptor runs.  A response
\* error carries response.status and response.data; a request that got no
\* response carries only request; anything else carries neither.
AxiosResponseError(status, errorMessages) ==
  [isAxiosError |-> TRUE,
   response |-> [status |-> status,
                 data |-> [errorMessages |-> errorMessages, errors |-> <<>>]],
   request |-> TRUE, message |-> "Request failed"]

AxiosNoResponse ==
  [isAxiosError |-> TRUE, request |-> TRUE, message |-> "timeout"]

AxiosSetupError ==
  [isAxiosError |-> TRUE, message |-> "bad config"]

\* JiraService.createError
createError(code, message, details) ==
  [code |-> code, message |-> message, details |-> details]

\* the message handleError extracts from the response body
errorMessageOf(data) ==
  IF Len(data.errorMessages) > 0 THEN data.errorMessages[1]
  ELSE IF Len(data.errors) > 0 THEN data.errors[1]
  ELSE "Unknown Jira API error"

\* handleError without its 429 branch: a rate-limited response falls through
\* to the generic remote error
handleError_noRateLimitBranch(error) ==
  IF "response" \in DOMAIN error THEN
    LET status == error.response.status
        errorMessage == errorMessageOf(error.response.data)
    IN  IF status = 401 THEN createError("AUTH_FAILED", "Invalid credentials", errorMessage)
        ELSE IF status = 403 THEN createError("FORBIDDEN", "Access forbidden - check permissions", errorMessage)
        ELSE IF status = 404 THEN createError("NOT_FOUND", "Resource not found", errorMessage)
        ELSE createError("JIRA_API_ERROR", "HTTP error", errorMessage)
  ELSE IF "request" \in DOMAIN error THEN
    createError("NETWORK_ERROR", "Cannot connect to Jira. Check your network connection and Jira URL.", error.message)
  ELSE createError("UNKNOWN", "An unexpected error occurred", error.message)

\* JiraService.handleError: the response interceptor's rejection handler.
\* It throws an AppError, so the promise of client.get/post/put rejects with
\* the value returned here.
handleError(error) ==
  IF "response" \in DOMAIN error THEN
    LET status == error.response.status
        errorMessage == errorMessageOf(error.response.data)
    IN  IF status = 401 THEN createError("AUTH_FAILED", "Invalid credentials", errorMessage)
        ELSE IF status = 403 THEN createError("FORBIDDEN", "Access forbidden - check permissions", errorMessage)
        ELSE IF status = 404 THEN createError("NOT_FOUND", "Resource not found", errorMessage)
        ELSE IF status = 429 THEN createError("RATE_LIMIT", "Rate limit exceeded. Please wait and try again.", errorMessage)
        ELSE createError("JIRA_API_ERROR", "HTTP error", errorMessage)
  ELSE IF "request" \in DOMAIN error THEN
    createError("NETWORK_ERROR", "Cannot connect to Jira. Check your network connection and Jira URL.", error.message)
  ELSE createError("UNKNOWN", "An unexpected error occurred", error.message)

\* axios.isAxiosError(payload): payload.isAxiosError === true
isAxiosError(payload) ==
  "isAxiosError" \in DOMAIN payload /\ payload.isAxiosError = TRUE

\* A settled promise: fulfilled with a value or rejected with a reason.
Fulfilled(v) == [settled |-> "fulfilled", value |-> v]
Rejected(e) == [settled |-> "rejected", reason |-> e]

\* What the remote service answers to GET /rest/api/2/issue/{key}.
RemoteFound(issueType) == [ok |-> TRUE, issueType |-> issueType]
RemoteFails(axiosError) == [ok |-> FALSE, error |-> axiosError]
\* a 2xx response whose body is not an issue (no `fields`)
RemoteUnexpected == [ok |-> TRUE]

\* what reading a property of undefined throws
TypeError == [name |-> "TypeError", message |-> "Cannot read properties of undefined"]

\* this.client.get(...) as the caller of the axios instance sees it: the
\* response interceptor passes a response through and replaces every
\* rejection by handleError's AppError.
clientGet(answer) ==
  IF answer.ok THEN Fulfilled(answer)
  ELSE Rejected(handleError(answer.error))

\* JiraService.validateIssue(issueKey), the body run under the limiter, given
\* the remote answer.
validateIssue(issueKey, answer) ==
  LET got == clientGet(answer)
      \* the try block: reading issue.fields.issuetype.name of a body
      \* without `fields` throws a TypeError
      tried == IF got.settled = "rejected" THEN got
               ELSE IF "issueType" \in DOMAIN got.value
               THEN Fulfilled([exists |-> TRUE, issueType |-> got.value.issueType, key |-> issueKey])
               ELSE Rejected(TypeError)
  IN  IF tried.settled = "fulfilled" THEN tried
      ELSE IF isAxiosError(tried.reason)
              /\ "response" \in DOMAIN tried.reason
              /\ tried.reason.response.status = 404
           THEN Fulfilled([exists |-> FALSE, issueType |-> "", key |-> issueKey])
           ELSE Rejected(tried.reason)

\* An IPC handler's try/catch around one awaited service call:
\* { success: true, data } or { success: false, error }.
handlerResult(p) ==
  IF p.settled = "fulfilled"
  THEN [success |-> TRUE, data |-> p.value]
  ELSE [success |-> FALSE, error |-> p.reason]

\* The VALIDATE_STORY handler: validateIssue under try/catch.
VALIDATE_STORY(storyKey, answer) == handlerResult(validateIssue(storyKey, answer))


\* ------------------------------------------------------------------ state
VARIABLES
  \* which registerTestHandlers the build registers: "testHandlers"
  \* (getJiraService returns the session's JiraService) or "perCall" (the
  \* handler module whose getJiraService constructs a JiraService per call)
  handlers,
  \* JiraService instances constructed so far; instance 1 is the session's
  nServices,
  \* per JiraService instance, its p-limit gate: the jobs holding a slot
  \* (activeCount is the cardinality) and the FIFO queue of waiting jobs
  active,
  queue,
  \* the jobs handed to a limiter: kind "call" (one remote request),
  \* "outer" (validateIssues' wrapper around validateIssue) or "inner"
  \* (validateIssue's request, submitted by its outer when that starts)
  job,
  nextJob,
  nSingles,
  \* the VALIDATE_ISSUES requests: per identifier the settled wrapper, and
  \* the handler's reply once Promise.all settles
  batch

gateVars == <<handlers, nServices, active, queue, job, nextJob, nSingles, batch>>

MaxServices == 1 + MaxSingles + MaxBatches
MaxJobs == MaxSingles + 2 * MaxKeys * MaxBatches
Services == 1..MaxServices
Jobs == 1..MaxJobs
Batches == 1..MaxBatches

NoJob == [kind |-> "none", svc |-> 0, batch |-> 0, key |-> 0, peer |-> 0]
NoReply == [sent |-> FALSE]
IdleBatch == [state |-> "idle", n |-> 0, settled |-> [k \in 1..MaxKeys |-> [settled |-> "no"]],
              reply |-> NoReply]

\* What the remote service may answer to a lookup in this part of the model:
\* the issue, 404, or a server error.
GateAnswers ==
  { RemoteFound("Story"),
    RemoteFails(AxiosResponseError(404, <<"Issue Does Not Exist">>)),
    RemoteFails(AxiosResponseError(500, <<>>)) }

\* ---------------------------------------------------------------- p-limit
\* pLimit(concurrency): a submitted function is queued; queued functions are
\* started in FIFO order while activeCount < concurrency.  Starting
\* validateIssues' wrapper runs it to its await, which submits validateIssue's
\* function to the same limiter, behind everything already queued.
RECURSIVE limiterDrain(_, _, _)
limiterDrain(act, q, jb) ==
  IF q = <<>> \/ Cardinality(act) >= MAX_CONCURRENT_REQUESTS
  THEN [active |-> act, queue |-> q]
  ELSE LET j == Head(q)
           rest == IF jb[j].kind = "outer" THEN Append(Tail(q), jb[j].peer) ELSE Tail(q)
       IN  limiterDrain(act \cup {j}, rest, jb)

\* limiter(fn) for the jobs js (in submission order) of one instance
limiter(act, q, js, jb) == limiterDrain(act, q \o js, jb)

\* a job's function settled: its slot is released and the queue resumes
limiterRelease(act, q, done, jb) == limiterDrain(act \ done, q, jb)

\* getJiraService(): authHandlers' returns the session's instance, the other
\* handler module's constructs a new JiraService (and with it a new limiter)
getJiraService == IF handlers = "testHandlers" THEN 1 ELSE nServices + 1

\* remote requests in flight, over the whole process
InFlight == { j \in Jobs : job[j].kind \in {"call", "inner"} /\ j \in active[job[j].svc] }


\* ------------------------------------------------- the gate: actions
InitGateVars ==
  /\ handlers \in {"testHandlers", "perCall"}
  /\ nServices = 1
  /\ active = [s \in Services |-> {}]
  /\ queue = [s \in Services |-> <<>>]
  /\ job = [j \in Jobs |-> NoJob]
  /\ nextJob = 1
  /\ nSingles = 0
  /\ batch = [b \in Batches |-> IdleBatch]

\* A handler that awaits one service method (LINK_ISSUES -> linkIssues,
\* VALIDATE_STORY -> validateIssue, CREATE_TEST_SET without tests ->
\* createTestSet, GET_ISSUE_TYPES -> getIssueTypes, ...): getJiraService(),
\* then the method's this.limiter(async () => { await this.client... }).
InvokeSingle ==
  /\ nSingles < MaxSingles
  /\ LET s == getJiraService
         j == nextJob
         jb == [job EXCEPT ![j] = [NoJob EXCEPT !.kind = "call", !.svc = s]]
         lim == limiter(active[s], queue[s], <<j>>, jb)
     IN  /\ job' = jb
         /\ active' = [active EXCEPT ![s] = lim.active]
         /\ queue' = [queue EXCEPT ![s] = lim.queue]
         /\ nServices' = IF s > nServices THEN s ELSE nServices
  /\ nextJob' = nextJob + 1
  /\ nSingles' = nSingles + 1
  /\ UNCHANGED <<handlers, batch>>

\* JiraService.validateIssues(issueKeys) called by the VALIDATE_ISSUES
\* handler: issueKeys.map(key => this.limiter(async () => { const result =
\* await this.validateIssue(key); results.set(key, result); })), then
\* await Promise.all(validations).
validateIssues(b, n) ==
  /\ batch[b].state = "idle"
  /\ \A c \in Batches : c < b => batch[c].state # "idle"
  /\ LET s == getJiraService
         outer == [k \in 1..n |-> nextJob + k - 1]
         inner == [k \in 1..n |-> nextJob + n + k - 1]
         jb == [j \in Jobs |->
                  IF \E k \in 1..n : j = outer[k]
                  THEN LET k == CHOOSE k \in 1..n : j = outer[k]
                       IN  [kind |-> "outer", svc |-> s, batch |-> b, key |-> k, peer |-> inner[k]]
                  ELSE IF \E k \in 1..n : j = inner[k]
                  THEN LET k == CHOOSE k \in 1..n : j = inner[k]
                       IN  [kind |-> "inner", svc |-> s, batch |-> b, key |-> k, peer |-> outer[k]]
                  ELSE job[j]]
         lim == limiter(active[s], queue[s], outer, jb)
     IN  /\ job' = jb
         /\ active' = [active EXCEPT ![s] = lim.active]
         /\ queue' = [queue EXCEPT ![s] = lim.queue]
         /\ nServices' = IF s > nServices THEN s ELSE nServices
         /\ batch' = [batch EXCEPT ![b] = [IdleBatch EXCEPT !.state = "pending", !.n = n]]
  /\ nextJob' = nextJob + 2 * n
  /\ UNCHANGED <<handlers, nSingles>>

\* The reply of the VALIDATE_ISSUES handler once Promise.all has settled:
\* rejected by the first wrapper that rejects, fulfilled when all n are.
VALIDATE_ISSUES(old, n, settled, k) ==
  IF old.sent THEN old
  ELSE IF settled[k].settled = "rejected"
       THEN [sent |-> TRUE, result |-> handlerResult(settled[k])]
       ELSE IF \A i \in 1..n : settled[i].settled = "fulfilled"
            THEN [sent |-> TRUE,
                  result |-> handlerResult(Fulfilled([i \in 1..n |-> settled[i].value]))]
            ELSE old

\* The remote service answers the request of a single-call job: the job's
\* function settles and its slot is released.
RespondSingle(j) ==
  /\ job[j].kind = "call"
  /\ j \in active[job[j].svc]
  /\ LET s == job[j].svc
         jb == [job EXCEPT ![j] = NoJob]
         lim == limiterRelease(active[s], queue[s], {j}, jb)
     IN  /\ job' = jb
         /\ active' = [active EXCEPT ![s] = lim.active]
         /\ queue' = [queue EXCEPT ![s] = lim.queue]
  /\ UNCHANGED <<handlers, nServices, nextJob, nSingles, batch>>

\* The remote service answers validateIssue's request inside a
\* validateIssues wrapper: validateIssue settles, the wrapper resumes
\* (results.set, or rethrow) and settles too, and both slots are released.
RespondLookup(j, answer) ==
  /\ job[j].kind = "inner"
  /\ j \in active[job[j].svc]
  /\ LET s == job[j].svc
         b == job[j].batch
         k == job[j].key
         p == validateIssue(k, answer)
         settled == [batch[b].settled EXCEPT ![k] = p]
         jb == [job EXCEPT ![j] = NoJob, ![job[j].peer] = NoJob]
         lim == limiterRelease(active[s], queue[s], {j, job[j].peer}, jb)
     IN  /\ job' = jb
         /\ active' = [active EXCEPT ![s] = lim.active]
         /\ queue' = [queue EXCEPT ![s] = lim.queue]
         /\ batch' = [batch EXCEPT ![b].settled = settled,
                                   ![b].reply = VALIDATE_ISSUES(batch[b].reply, batch[b].n, settled, k),
                                   ![b].state = IF \A i \in 1..batch[b].n : settled[i].settled # "no"
                                                THEN "done" ELSE "pending"]
  /\ UNCHANGED <<handlers, nServices, nextJob, nSingles>>



\* =================================================== IssueKeyValidator
\* Identifiers are strings, modelled as sequences of characters.
\* bounds of the validator part of the model
\* calls of validateIssueKey / validateIssueKeys in a run
MaxCalls == 2
\* identifiers in one validateIssueKeys call
MaxBatchLen == 2

KEY_A1 == <<"A", "-", "1">>
KEY_a1 == <<"a", "-", "1">>
KEY_B2 == <<"B", "-", "2">>
KEY_A == <<"A", "1">>
Identifiers == {KEY_A1, KEY_a1, KEY_B2, KEY_A}

\* String.prototype.toUpperCase
toUpperCaseChar(c) ==
  CASE c = "a" -> "A"
    [] c = "b" -> "B"
    [] OTHER -> c
toUpperCase(str) == [i \in 1..Len(str) |-> toUpperCaseChar(str[i])]

UpperCaseLetters == {"A", "B"}
DecimalDigits == {"1", "2"}

\* a format check that does not require the dash: /^[A-Z]+-?\d+$/
isValidKeyFormat_dashOptional(key) ==
  LET u == toUpperCase(key)
  IN  \E d \in 1..(Len(u) - 1) :
        /\ \A i \in 1..d : u[i] \in UpperCaseLetters
        /\ \/ \A i \in (d + 1)..Len(u) : u[i] \in DecimalDigits
           \/ /\ d + 1 < Len(u)
              /\ u[d + 1] = "-"
              /\ \A i \in (d + 2)..Len(u) : u[i] \in DecimalDigits

\* IssueKeyValidator.isValidKeyFormat: /^[A-Z]+-\d+$/.test(key.toUpperCase())
isValidKeyFormat(key) ==
  LET u == toUpperCase(key)
  IN  \E d \in 2..(Len(u) - 1) :
        /\ u[d] = "-"
        /\ \A i \in 1..(d - 1) : u[i] \in UpperCaseLetters
        /\ \A i \in (d + 1)..Len(u) : u[i] \in DecimalDigits

\* the arguments api.validateStory can be called with, and more
CacheKeys == { toUpperCase(id) : id \in Identifiers }

IssueTypes == {"Story", "Test"}
\* expectedIssueTypes: omitted, or an array of type names
NoExpected == [given |-> FALSE, types |-> {}]
Expected(types) == [given |-> TRUE, types |-> types]
ExpectedChoices == {NoExpected, Expected({"Test"}), Expected({"Story", "Test"})}

VARIABLES
  \* the remote service: per issue key its type, or "absent" (A-1 is a Story,
  \* no other issue exists)
  remoteIssue,
  \* IssueKeyValidator.validationCache
  validationCache,
  \* calls of validateIssueKey(s): the identifiers, the allowlist and, per
  \* identifier, the pending or returned validateIssueKey
  vcall,
  \* the call that returned last, with the results it returned
  lastReturn,
  \* the last reply api.validateStory delivered, with the remote answer
  lastIpc,
  \* api.validateStory calls issued so far, per argument
  apiCalls,
  \* keys of which a validation has completed with a found or a not-found
  \* answer of the remote service
  resolved,
  \* keys of which a lookup has failed without an answer about the issue
  lookupFailed,
  \* keys a returned validation has reported as of a type outside its allowlist
  mismatched

validatorVars == <<remoteIssue, validationCache, vcall, lastReturn, lastIpc, apiCalls, resolved,
                  lookupFailed, mismatched>>

Calls == 1..MaxCalls

NotCached == [cached |-> FALSE]
NoError == [msg |-> "", expected |-> {}, got |-> ""]
SimpleError(msg) == [msg |-> msg, expected |-> {}, got |-> ""]
\* `Expected ${expectedIssueTypes.join(' or ')}, got ${issueType}`
MismatchError(expected, issueType) ==
  [msg |-> "Expected ..., got ...", expected |-> expected.types, got |-> issueType]

ValidResult(issueType) == [valid |-> TRUE, error |-> NoError, issueType |-> issueType]
InvalidResult(error, issueType) == [valid |-> FALSE, error |-> error, issueType |-> issueType]

FORMAT_ERROR == "Invalid issue key format (expected: ABC-123)"

\* expectedIssueTypes && !expectedIssueTypes.includes(issueType)
typeRejected(expected, issueType) == expected.given /\ issueType \notin expected.types

\* validateIssueKey up to its first await: the format check and the cache
\* lookup.  done = FALSE means api.validateStory(cacheKey) is called.
validateIssueKeySync(issueKey, expected, cache) ==
  IF ~ isValidKeyFormat(issueKey)
  THEN [done |-> TRUE, result |-> InvalidResult(SimpleError(FORMAT_ERROR), "")]
  ELSE LET cacheKey == toUpperCase(issueKey)
       IN  IF cache[cacheKey].cached
           THEN LET cached == cache[cacheKey]
                IN  IF ~ cached.valid
                    THEN [done |-> TRUE, result |-> InvalidResult(SimpleError("Issue not found"), "")]
                    ELSE IF typeRejected(expected, cached.issueType)
                         THEN [done |-> TRUE,
                               result |-> InvalidResult(MismatchError(expected, cached.issueType),
                                                        cached.issueType)]
                         ELSE [done |-> TRUE, result |-> ValidResult(cached.issueType)]
           ELSE [done |-> FALSE, result |-> ValidResult("")]

\* a validator that caches found issues only
validateIssueKeyCacheEntry_positiveOnly(expected, result) ==
  IF result.success /\ result.data.exists
  THEN [cached |-> TRUE, valid |-> TRUE, issueType |-> result.data.issueType]
  ELSE NotCached

\* a validator that caches what it returns: a found issue of a type outside the
\* allowlist is cached as invalid
validateIssueKeyCacheEntry_afterTypeCheck(expected, result) ==
  IF result.success /\ result.data.exists /\ ~ typeRejected(expected, result.data.issueType)
  THEN [cached |-> TRUE, valid |-> TRUE, issueType |-> result.data.issueType]
  ELSE [cached |-> TRUE, valid |-> FALSE, issueType |-> ""]

\* the entry validateIssueKey writes to the cache when api.validateStory
\* has returned `result`; it is written before the type check and does not
\* depend on expectedIssueTypes
validateIssueKeyCacheEntry(expected, result) ==
  IF result.success /\ result.data.exists
  THEN [cached |-> TRUE, valid |-> TRUE, issueType |-> result.data.issueType]
  ELSE [cached |-> TRUE, valid |-> FALSE, issueType |-> ""]

\* what validateIssueKey returns when api.validateStory has returned `result`
validateIssueKeyResume(expected, result) ==
  IF result.success /\ result.data.exists
  THEN LET issueType == result.data.issueType
       IN  IF typeRejected(expected, issueType)
           THEN InvalidResult(MismatchError(expected, issueType), issueType)
           ELSE ValidResult(issueType)
  ELSE InvalidResult(SimpleError(IF ~ result.success /\ result.error.message # ""
                                 THEN result.error.message
                                 ELSE "Issue not found"), "")


\* the issue keys the remote service can be asked about
RemoteKeys == { k \in CacheKeys : isValidKeyFormat(k) }

\* the answer of the remote service to a lookup of `key`: what it holds, or
\* a failure that says nothing about the issue (no response, rate limit)
TruthfulAnswer(key) ==
  IF remoteIssue[key] = "absent"
  THEN RemoteFails(AxiosResponseError(404, <<"Issue Does Not Exist">>))
  ELSE RemoteFound(remoteIssue[key])
TransientAnswers ==
  { RemoteFails(AxiosNoResponse), RemoteFails(AxiosResponseError(429, <<>>)) }
AnswersFor(key) == {TruthfulAnswer(key)} \cup TransientAnswers \cup {RemoteUnexpected}

IdleCall == [state |-> "idle"]
ReturnedCall == [state |-> "returned"]
NoReturn == [returned |-> FALSE]
NoIpc == [delivered |-> FALSE]

InitValidatorVars ==
  /\ remoteIssue = [k \in RemoteKeys |-> IF k = KEY_A1 THEN "Story" ELSE "absent"]
  /\ validationCache = [k \in CacheKeys |-> NotCached]
  /\ vcall = [c \in Calls |-> IdleCall]
  /\ lastReturn = NoReturn
  /\ lastIpc = NoIpc
  /\ apiCalls = [k \in CacheKeys |-> 0]
  /\ resolved = {}
  /\ lookupFailed = {}
  /\ mismatched = {}

\* the keys a call's results report as of a type outside the allowlist
reportedMismatch(ret) ==
  { toUpperCase(id) : id \in { i \in ret.keys : ret.results[i].error.expected # {} } }

\* the value a call returns once all its validateIssueKey promises are
\* settled: validateIssueKeys' Map, or validateIssueKey's own result
CallReturn(c, keys, expected, slot, served) ==
  [returned |-> TRUE, keys |-> keys, expected |-> expected,
   results |-> [id \in keys |-> slot[id].result], served |-> served]

\* validateIssueKey, were it to share one api.validateStory call among the
\* pending validations of a key
validateStoryCalls_coalesced(asked) == IF asked = {} THEN 0 ELSE 1

\* the api.validateStory calls issued for the validations `asked` of one
\* cache key that missed the cache: each validateIssueKey makes its own
\* (line 144)
validateStoryCalls(asked) == Cardinality(asked)

\* IssueKeyValidator.validateIssueKeys(issueKeys, expectedIssueTypes): every
\* validateIssueKey runs to its first await; the Map is returned when all
\* have settled.
validateIssueKeys(c, keys, expected) ==
  /\ vcall[c].state = "idle"
  /\ \A b \in Calls : b < c => vcall[b].state # "idle"
  /\ LET sync == [id \in keys |-> validateIssueKeySync(id, expected, validationCache)]
         slot == [id \in keys |->
                    IF sync[id].done THEN [st |-> "done", result |-> sync[id].result]
                    ELSE [st |-> "awaiting"]]
         asked(k) == { id \in keys : ~ sync[id].done /\ toUpperCase(id) = k }
         \* the identifiers answered from validationCache (lines 124-140)
         served == { id \in keys : isValidKeyFormat(id) /\ sync[id].done }
     IN  /\ apiCalls' = [k \in CacheKeys |-> apiCalls[k] + validateStoryCalls(asked(k))]
         /\ IF \A id \in keys : sync[id].done
            THEN /\ vcall' = [vcall EXCEPT ![c] = ReturnedCall]
                 /\ lastReturn' = CallReturn(c, keys, expected, slot, served)
                 /\ mismatched' = mismatched \cup reportedMismatch(CallReturn(c, keys, expected, slot, served))
            ELSE /\ vcall' = [vcall EXCEPT ![c] =
                               [state |-> "running", keys |-> keys,
                                expected |-> expected, slot |-> slot, served |-> served]]
                 /\ UNCHANGED <<lastReturn, mismatched>>
  /\ UNCHANGED <<remoteIssue, validationCache, lastIpc, resolved, lookupFailed>>

\* api.validateStory(cacheKey) returns to the validateIssueKey of call c for
\* identifier id: the VALIDATE_STORY handler's reply to the remote answer.
\* validateIssueKey writes the cache and returns; when it was the call's last
\* pending one, the call returns.
ValidateStoryReturns(c, id, answer) ==
  /\ vcall[c].state = "running"
  /\ id \in vcall[c].keys
  /\ vcall[c].slot[id].st = "awaiting"
  /\ LET cacheKey == toUpperCase(id)
         result == VALIDATE_STORY(cacheKey, answer)
         slot == [vcall[c].slot EXCEPT ![id] =
                    [st |-> "done", result |-> validateIssueKeyResume(vcall[c].expected, result)]]
     IN  /\ answer \in AnswersFor(cacheKey)
         /\ validationCache' = [validationCache EXCEPT ![cacheKey] =
                                  validateIssueKeyCacheEntry(vcall[c].expected, result)]
         /\ lastIpc' = [delivered |-> TRUE, key |-> cacheKey, answer |-> answer, result |-> result]
         /\ resolved' = IF answer = TruthfulAnswer(cacheKey) THEN resolved \cup {cacheKey} ELSE resolved
         /\ lookupFailed' = IF answer = TruthfulAnswer(cacheKey) THEN lookupFailed
                            ELSE lookupFailed \cup {cacheKey}
         /\ IF \A k \in vcall[c].keys : slot[k].st = "done"
            THEN /\ vcall' = [vcall EXCEPT ![c] = ReturnedCall]
                 /\ lastReturn' = CallReturn(c, vcall[c].keys, vcall[c].expected, slot, vcall[c].served)
                 /\ mismatched' = mismatched \cup
                      reportedMismatch(CallReturn(c, vcall[c].keys, vcall[c].expected, slot, vcall[c].served))
            ELSE /\ vcall' = [vcall EXCEPT ![c].slot = slot]
                 /\ UNCHANGED <<lastReturn, mismatched>>
  /\ UNCHANGED <<remoteIssue, apiCalls>>

\* IssueKeyValidator.validateIssueKey(issueKey, expectedIssueTypes) called on
\* its own (DynamicFieldEnhanced): one validateIssueKey, whose result is
\* the call's.
validateIssueKey(c, issueKey, expected) == validateIssueKeys(c, {issueKey}, expected)

KeySets == { ks \in SUBSET Identifiers : ks # {} /\ Cardinality(ks) <= MaxBatchLen }

\* ------------------------------------------------- creating records
\* bounds of the creation part of the model
\* test records in one batch (forms of handleCreateAll, workflow.tests)
MaxRecords == 3
\* steps of one test
MaxSteps == 3
\* remote calls that fail in a run
MaxFailures == 2

\* The records a run creates.  The remote service assigns the key; the model
\* identifies a record and its key.
TestRec(i) == [type |-> "Test", i |-> i]
TestSetRec == [type |-> "Test Set", i |-> 1]
TestExecutionRec == [type |-> "Test Execution", i |-> 1]
Records == { TestRec(i) : i \in 1..MaxRecords } \cup {TestSetRec, TestExecutionRec}

\* One request of a JiraService method, made on behalf of the handler of
\* `channel` for record `rec`: step is the step's position for addTestStep,
\* target the other end for linkIssues.
Call(channel, rec, method, step, target) ==
  [channel |-> channel, rec |-> rec, method |-> method, step |-> step, target |-> target]

\* what the remote service answers to a POST or PUT
RemoteDone == [ok |-> TRUE]
CreateAnswers ==
  { RemoteDone,
    RemoteFails(AxiosResponseError(500, <<"Internal error">>)),
    RemoteFails(AxiosResponseError(429, <<"Too many requests">>)),
    RemoteFails(AxiosNoResponse) }

VARIABLES
  \* the renderer flow in progress (handleCreateAll, handleCreate,
  \* handleSaveTestSet, or a plain api call) with its local variables
  ui,
  \* the IPC handler in progress in the main process, or its reply
  handler,
  \* the remote calls in flight
  inflight,
  \* the remote calls in the order they were issued
  issued,
  \* the remote service: records created, steps attached per test in the
  \* order attached, links established, records given their tests
  jira,
  \* the remote calls that failed
  failedCalls,
  \* what the flow told its user (or, for a plain api call, its caller)
  report

createVars == <<ui, handler, inflight, issued, jira, failedCalls, report>>

NoHandler == [channel |-> "none", pc |-> "none"]
IdleUi == [flow |-> "idle", pc |-> "idle"]
NoReport == [shown |-> FALSE]

\* a handler that returned `result` to ipcRenderer.invoke
Replied(channel, result) ==
  [h |-> [channel |-> channel, pc |-> "replied", result |-> result], calls |-> <<>>]
\* a handler suspended at an await, having made `calls` (in this order)
Awaits(h, calls) == [h |-> h, calls |-> calls]

\* the for-loop over the steps, at step `from`: one addTestStep is awaited
\* before the next is called
addSteps_allAtOnce(channel, rec, steps, from) ==
  [n \in 1..(steps - from + 1) |-> Call(channel, rec, "addTestStep", from + n - 1, "")]

addSteps(channel, rec, steps, from) ==
  << Call(channel, rec, "addTestStep", from, "") >>

\* CREATE_TEST handler, from its invocation to the first await
CREATE_TEST_invoke(testInput) ==
  Awaits([channel |-> "CREATE_TEST", pc |-> "createTest", input |-> testInput, s |-> 0],
         <<Call("CREATE_TEST", testInput.rec, "createTest", 0, "")>>)

\* CREATE_TEST handler, were it to call again when the call it awaits is
\* rejected as rate-limited or for want of a response
CREATE_TEST_retrying(h, p) ==
  IF p.settled = "rejected"
  THEN IF p.reason.code \in {"RATE_LIMIT", "NETWORK_ERROR"}
       THEN Awaits(h, <<Call("CREATE_TEST", h.input.rec, h.pc, h.s, "")>>)
       ELSE Replied("CREATE_TEST", [success |-> FALSE, error |-> p.reason])
  ELSE IF h.s < h.input.steps
       THEN Awaits([h EXCEPT !.pc = "addTestStep", !.s = h.s + 1],
                   addSteps("CREATE_TEST", h.input.rec, h.input.steps, h.s + 1))
       ELSE Replied("CREATE_TEST", [success |-> TRUE, data |-> [key |-> h.input.rec]])

\* CREATE_TEST handler, resumed when the promise it awaits settles as p
CREATE_TEST(h, p) ==
  IF p.settled = "rejected"
  THEN Replied("CREATE_TEST", [success |-> FALSE, error |-> p.reason])
  ELSE IF h.s < h.input.steps
       THEN Awaits([h EXCEPT !.pc = "addTestStep", !.s = h.s + 1],
                   addSteps("CREATE_TEST", h.input.rec, h.input.steps, h.s + 1))
       ELSE Replied("CREATE_TEST", [success |-> TRUE, data |-> [key |-> h.input.rec]])

\* ADD_TEST_STEP handler
ADD_TEST_STEP_invoke(testKey, step) ==
  Awaits([channel |-> "ADD_TEST_STEP", pc |-> "addTestStep"],
         <<Call("ADD_TEST_STEP", testKey, "addTestStep", step, "")>>)

ADD_TEST_STEP(h, p) ==
  IF p.settled = "rejected"
  THEN Replied("ADD_TEST_STEP", [success |-> FALSE, error |-> p.reason])
  ELSE Replied("ADD_TEST_STEP", [success |-> TRUE])

\* LINK_ISSUES handler
LINK_ISSUES_invoke(linkType, inwardKey, outwardKey) ==
  Awaits([channel |-> "LINK_ISSUES", pc |-> "linkIssues"],
         <<Call("LINK_ISSUES", inwardKey, "linkIssues", 0, outwardKey)>>)

LINK_ISSUES(h, p) ==
  IF p.settled = "rejected"
  THEN Replied("LINK_ISSUES", [success |-> FALSE, error |-> p.reason])
  ELSE Replied("LINK_ISSUES", [success |-> TRUE])

\* CREATE_TEST_SET handler; testKeys is the number of keys passed
CREATE_TEST_SET_invoke(setInput, testKeys) ==
  Awaits([channel |-> "CREATE_TEST_SET", pc |-> "createTestSet", testKeys |-> testKeys],
         <<Call("CREATE_TEST_SET", TestSetRec, "createTestSet", 0, "")>>)

CREATE_TEST_SET(h, p) ==
  IF p.settled = "rejected"
  THEN Replied("CREATE_TEST_SET", [success |-> FALSE, error |-> p.reason])
  ELSE IF h.pc = "createTestSet" /\ h.testKeys > 0
       THEN Awaits([h EXCEPT !.pc = "addTestsToSet"],
                   <<Call("CREATE_TEST_SET", TestSetRec, "addTestsToSet", 0, "")>>)
       ELSE Replied("CREATE_TEST_SET", [success |-> TRUE, data |-> [key |-> TestSetRec]])

\* CREATE_EXECUTION handler
CREATE_EXECUTION_invoke(execInput, testKeys) ==
  Awaits([channel |-> "CREATE_EXECUTION", pc |-> "createTestExecution", testKeys |-> testKeys],
         <<Call("CREATE_EXECUTION", TestExecutionRec, "createTestExecution", 0, "")>>)

CREATE_EXECUTION(h, p) ==
  IF p.settled = "rejected"
  THEN Replied("CREATE_EXECUTION", [success |-> FALSE, error |-> p.reason])
  ELSE IF h.pc = "createTestExecution" /\ h.testKeys > 0
       THEN Awaits([h EXCEPT !.pc = "addTestsToExecution"],
                   <<Call("CREATE_EXECUTION", TestExecutionRec, "addTestsToExecution", 0, "")>>)
       ELSE Replied("CREATE_EXECUTION", [success |-> TRUE, data |-> [key |-> TestExecutionRec]])

\* EXECUTE_WORKFLOW handler.  workflow.tests is the number of tests, each
\* with workflow.steps steps; testSet and testPlanKey say whether given.
EXECUTE_WORKFLOW_test(h, i) ==
  Awaits([h EXCEPT !.pc = "createTest", !.i = i, !.s = 0],
         <<Call("EXECUTE_WORKFLOW", TestRec(i), "createTest", 0, "")>>)

\* Step 2 if a test set is asked for, else Step 3
EXECUTE_WORKFLOW_afterTests(h) ==
  IF h.input.testSet
  THEN Awaits([h EXCEPT !.pc = "createTestSet"],
              <<Call("EXECUTE_WORKFLOW", TestSetRec, "createTestSet", 0, "")>>)
  ELSE Awaits([h EXCEPT !.pc = "createTestExecution"],
              <<Call("EXECUTE_WORKFLOW", TestExecutionRec, "createTestExecution", 0, "")>>)

EXECUTE_WORKFLOW_invoke(workflow) ==
  LET h == [channel |-> "EXECUTE_WORKFLOW", pc |-> "start", input |-> workflow,
            i |-> 0, s |-> 0, createdTestKeys |-> <<>>]
  IN  IF workflow.tests > 0 THEN EXECUTE_WORKFLOW_test(h, 1)
      ELSE EXECUTE_WORKFLOW_afterTests(h)

EXECUTE_WORKFLOW_success(h) ==
  Replied("EXECUTE_WORKFLOW",
          [success |-> TRUE,
           data |-> [testKeys |-> h.createdTestKeys,
                     testSetKey |-> IF h.input.testSet THEN <<TestSetRec>> ELSE <<>>,
                     executionKey |-> TestExecutionRec,
                     success |-> TRUE]])

\* EXECUTE_WORKFLOW handler, resumed when the promise it awaits settles as p
EXECUTE_WORKFLOW(h, p) ==
  IF p.settled = "rejected"
  THEN Replied("EXECUTE_WORKFLOW", [success |-> FALSE, error |-> p.reason])
  ELSE CASE h.pc \in {"createTest", "addTestStep"} ->
              IF h.s < h.input.steps
              THEN Awaits([h EXCEPT !.pc = "addTestStep", !.s = h.s + 1],
                          addSteps("EXECUTE_WORKFLOW", TestRec(h.i), h.input.steps, h.s + 1))
              ELSE Awaits([h EXCEPT !.pc = "linkTest"],
                          <<Call("EXECUTE_WORKFLOW", TestRec(h.i), "linkIssues", 0, "story")>>)
         [] h.pc = "linkTest" ->
              LET g == [h EXCEPT !.createdTestKeys = Append(@, TestRec(h.i))]
              IN  IF h.i < h.input.tests THEN EXECUTE_WORKFLOW_test(g, h.i + 1)
                  ELSE EXECUTE_WORKFLOW_afterTests(g)
         [] h.pc = "createTestSet" ->
              Awaits([h EXCEPT !.pc = "addTestsToSet"],
                     <<Call("EXECUTE_WORKFLOW", TestSetRec, "addTestsToSet", 0, "")>>)
         [] h.pc = "addTestsToSet" ->
              Awaits([h EXCEPT !.pc = "linkSet"],
                     <<Call("EXECUTE_WORKFLOW", TestSetRec, "linkIssues", 0, "story")>>)
         [] h.pc = "linkSet" ->
              Awaits([h EXCEPT !.pc = "createTestExecution"],
                     <<Call("EXECUTE_WORKFLOW", TestExecutionRec, "createTestExecution", 0, "")>>)
         [] h.pc = "createTestExecution" ->
              Awaits([h EXCEPT !.pc = "addTestsToExecution"],
                     <<Call("EXECUTE_WORKFLOW", TestExecutionRec, "addTestsToExecution", 0, "")>>)
         [] h.pc = "addTestsToExecution" ->
              Awaits([h EXCEPT !.pc = "linkExecution"],
                     <<Call("EXECUTE_WORKFLOW", TestExecutionRec, "linkIssues", 0, "story")>>)
         [] h.pc = "linkExecution" ->
              IF h.input.testPlanKey
              THEN Awaits([h EXCEPT !.pc = "linkPlan"],
                          <<Call("EXECUTE_WORKFLOW", TestExecutionRec, "linkIssues", 0, "plan")>>)
              ELSE EXECUTE_WORKFLOW_success(h)
         [] h.pc = "linkPlan" -> EXECUTE_WORKFLOW_success(h)

\* ------------------------------------------------------- renderer flows
\* api.x(...) is ipcRenderer.invoke(channel, ...): its promise fulfils with
\* whatever the handler returned
apiInvoke(result) == Fulfilled(result)

NoInvoke == Awaits(NoHandler, <<>>)
NoKey == [type |-> "", i |-> 0]

\* a flow suspended at `await api...`, or finished with a report
Continue(u, next) == [ui |-> u, next |-> next, report |-> NoReport]
Finish(u, rep) == [ui |-> [u EXCEPT !.pc = "done"], next |-> NoInvoke, report |-> rep]

\* TestCasesTab.handleCreateAll.  forms.n forms, each with forms.steps steps;
\* forms.complete says that no form lacks its summary or a step's text.
handleCreateAll_form(u, i) ==
  Continue([u EXCEPT !.pc = "createTest", !.i = i, !.s = 0],
           CREATE_TEST_invoke([rec |-> TestRec(i), steps |-> u.forms.steps]))

handleCreateAll_end(u) ==
  Finish(u, [shown |-> TRUE, flow |-> "handleCreateAll",
             createdCount |-> u.createdCount, failedCount |-> u.failedCount,
             indicesToRemove |-> u.indicesToRemove,
             message |-> IF u.failedCount = 0 THEN "setSuccess" ELSE "setError"])

handleCreateAll_nextForm(u) ==
  IF u.i < u.forms.n THEN handleCreateAll_form(u, u.i + 1) ELSE handleCreateAll_end(u)

handleCreateAll_created(u) ==
  handleCreateAll_nextForm([u EXCEPT !.createdCount = @ + 1,
                                     !.indicesToRemove = @ \cup {u.i}])

handleCreateAll_link(u) ==
  IF u.linkedStory
  THEN Continue([u EXCEPT !.pc = "linkIssues"], LINK_ISSUES_invoke("Test", u.testKey, "story"))
  ELSE handleCreateAll_created(u)

handleCreateAll_step(u, s) ==
  IF s <= u.forms.steps
  THEN Continue([u EXCEPT !.pc = "addTestStep", !.s = s], ADD_TEST_STEP_invoke(u.testKey, s))
  ELSE handleCreateAll_link(u)

handleCreateAll_start(forms, linkedStory) ==
  LET u == [flow |-> "handleCreateAll", pc |-> "start", forms |-> forms,
            linkedStory |-> linkedStory, i |-> 0, s |-> 0, testKey |-> NoKey,
            createdCount |-> 0, failedCount |-> 0, indicesToRemove |-> {}]
  IN  IF ~ forms.complete
      THEN Finish(u, [shown |-> TRUE, flow |-> "handleCreateAll",
                      createdCount |-> 0, failedCount |-> 0, indicesToRemove |-> {},
                      message |-> "incomplete"])
      ELSE handleCreateAll_form(u, 1)

\* handleCreateAll resumed when the api promise it awaits settles as p
handleCreateAll(u, p) ==
  IF p.settled = "rejected"
  THEN IF u.pc = "linkIssues" THEN handleCreateAll_created(u)
       ELSE handleCreateAll_nextForm([u EXCEPT !.failedCount = @ + 1])
  ELSE LET result == p.value
       IN  CASE u.pc = "createTest" ->
                  IF result.success
                  THEN handleCreateAll_step([u EXCEPT !.testKey = result.data.key], 1)
                  ELSE handleCreateAll_nextForm([u EXCEPT !.failedCount = @ + 1])
             [] u.pc = "addTestStep" -> handleCreateAll_step(u, u.s + 1)
             [] u.pc = "linkIssues" -> handleCreateAll_created(u)

\* TestExecutionTab.handleCreate.  exec.summary says whether the summary is
\* filled in, exec.selectedTests is the number of selected tests.
handleCreate_end(u) ==
  LET linkedCount == (IF u.exec.linkedStory THEN 1 ELSE 0)
                     + (IF u.exec.validatedTestPlan THEN 1 ELSE 0)
  IN  Finish(u, [shown |-> TRUE, flow |-> "handleCreate", message |-> "setSuccess",
                 key |-> u.key, linkErrors |-> u.linkErrors,
                 linkedMsg |-> IF linkedCount > 0 /\ u.linkErrors = {}
                               THEN linkedCount ELSE 0])

handleCreate_failed(u) ==
  Finish(u, [shown |-> TRUE, flow |-> "handleCreate", message |-> "setError",
             key |-> NoKey, linkErrors |-> {}, linkedMsg |-> 0])

handleCreate_linkPlan(u) ==
  IF u.exec.validatedTestPlan
  THEN Continue([u EXCEPT !.pc = "linkPlan"], LINK_ISSUES_invoke("Relates", u.key, "plan"))
  ELSE handleCreate_end(u)

handleCreate_linkStory(u) ==
  IF u.exec.linkedStory
  THEN Continue([u EXCEPT !.pc = "linkStory"], LINK_ISSUES_invoke("Relates", u.key, "story"))
  ELSE handleCreate_linkPlan(u)

handleCreate_start(exec) ==
  LET u == [flow |-> "handleCreate", pc |-> "start", exec |-> exec,
            key |-> NoKey, linkErrors |-> {}]
  IN  IF ~ exec.summary THEN handleCreate_failed(u)
      ELSE Continue([u EXCEPT !.pc = "createExecution"],
                    CREATE_EXECUTION_invoke(exec, exec.selectedTests))

\* handleCreate resumed when the api promise it awaits settles as p
handleCreate(u, p) ==
  CASE u.pc = "createExecution" ->
         IF p.settled = "rejected" \/ ~ p.value.success
         THEN handleCreate_failed(u)
         ELSE handleCreate_linkStory([u EXCEPT !.key = p.value.data.key])
    [] u.pc = "linkStory" ->
         handleCreate_linkPlan(IF p.settled = "rejected"
                               THEN [u EXCEPT !.linkErrors = @ \cup {"Story link"}]
                               ELSE u)
    [] u.pc = "linkPlan" ->
         handleCreate_end(IF p.settled = "rejected"
                          THEN [u EXCEPT !.linkErrors = @ \cup {"Test Plan link"}]
                          ELSE u)

\* TestSetsTab.handleSaveTestSet
handleSaveTestSet_end(u) ==
  Finish(u, [shown |-> TRUE, flow |-> "handleSaveTestSet", message |-> "setSuccess",
             key |-> u.key, linkErrors |-> {}, linkedMsg |-> 0])

handleSaveTestSet_failed(u) ==
  Finish(u, [shown |-> TRUE, flow |-> "handleSaveTestSet", message |-> "setError",
             key |-> NoKey, linkErrors |-> {}, linkedMsg |-> 0])

handleSaveTestSet_start(testSet) ==
  LET u == [flow |-> "handleSaveTestSet", pc |-> "start", testSet |-> testSet, key |-> NoKey]
  IN  IF ~ testSet.summary \/ testSet.selectedTests = 0 THEN handleSaveTestSet_failed(u)
      ELSE Continue([u EXCEPT !.pc = "createTestSet"],
                    CREATE_TEST_SET_invoke(testSet, testSet.selectedTests))

\* handleSaveTestSet resumed when the api promise it awaits settles as p
handleSaveTestSet(u, p) ==
  IF p.settled = "rejected" THEN handleSaveTestSet_failed(u)
  ELSE CASE u.pc = "createTestSet" ->
              IF p.value.success
              THEN LET v == [u EXCEPT !.key = p.value.data.key]
                   IN  IF u.testSet.linkedStory
                       THEN Continue([v EXCEPT !.pc = "linkIssues"],
                                     LINK_ISSUES_invoke("Relates", v.key, "story"))
                       ELSE handleSaveTestSet_end(v)
              ELSE handleSaveTestSet_failed(u)
         [] u.pc = "linkIssues" -> handleSaveTestSet_end(u)

\* a caller of api.createTest or api.executeWorkflow that takes the Result
\* as it comes (preload)
apiCall_start(channel, input) ==
  Continue([flow |-> "api", pc |-> "invoke", channel |-> channel, input |-> input],
           IF channel = "CREATE_TEST" THEN CREATE_TEST_invoke(input)
           ELSE EXECUTE_WORKFLOW_invoke(input))

apiCall(u, p) ==
  Finish(u, [shown |-> TRUE, flow |-> "api", channel |-> u.channel, result |-> p.value])

\* the inputs of a run
Forms == [n : 1..MaxRecords, steps : 0..MaxSteps, complete : BOOLEAN]
Workflows == [tests : 0..MaxRecords, steps : 0..MaxSteps, testSet : BOOLEAN, testPlanKey : BOOLEAN]
TestInputs == [rec : {TestRec(1)}, steps : 0..MaxSteps]
Executions == [summary : BOOLEAN, selectedTests : 0..1, linkedStory : BOOLEAN,
               validatedTestPlan : BOOLEAN]
TestSets == [summary : BOOLEAN, selectedTests : 0..1, linkedStory : BOOLEAN]

NoJira == [created |-> {}, steps |-> [r \in Records |-> <<>>], links |-> {}, tests |-> {}]

\* what a request that succeeds does to the remote service
jiraApply(j, c) ==
  CASE c.method \in {"createTest", "createTestSet", "createTestExecution"} ->
         [j EXCEPT !.created = @ \cup {c.rec}]
    [] c.method = "addTestStep" -> [j EXCEPT !.steps[c.rec] = Append(@, c.step)]
    [] c.method = "linkIssues" -> [j EXCEPT !.links = @ \cup {[rec |-> c.rec, target |-> c.target]}]
    [] c.method \in {"addTestsToSet", "addTestsToExecution"} ->
         [j EXCEPT !.tests = @ \cup {c.rec}]

InitCreateVars ==
  /\ ui = IdleUi
  /\ handler = NoHandler
  /\ inflight = {}
  /\ issued = <<>>
  /\ jira = NoJira
  /\ failedCalls = {}
  /\ report = NoReport

SeqRange(seq) == { seq[n] : n \in 1..Len(seq) }

\* the renderer runs to its next await (an api call, which runs the handler
\* to its first await) or to its end
Launch(r) ==
  /\ ui' = r.ui
  /\ report' = r.report
  /\ handler' = r.next.h
  /\ inflight' = inflight \cup SeqRange(r.next.calls)
  /\ issued' = issued \o r.next.calls
  /\ UNCHANGED <<jira, failedCalls>>

HandleCreateAllClicked(forms, linkedStory) ==
  ui = IdleUi /\ Launch(handleCreateAll_start(forms, linkedStory))

HandleCreateClicked(exec) ==
  ui = IdleUi /\ Launch(handleCreate_start(exec))

HandleSaveTestSetClicked(testSet) ==
  ui = IdleUi /\ Launch(handleSaveTestSet_start(testSet))

createTest(testInput) ==
  ui = IdleUi /\ Launch(apiCall_start("CREATE_TEST", testInput))

executeWorkflow(workflow) ==
  ui = IdleUi /\ Launch(apiCall_start("EXECUTE_WORKFLOW", workflow))

\* the handler's reply reaches the renderer, which resumes
RendererResumes ==
  /\ handler.pc = "replied"
  /\ LET p == apiInvoke(handler.result)
     IN  Launch(CASE ui.flow = "handleCreateAll" -> handleCreateAll(ui, p)
                  [] ui.flow = "handleCreate" -> handleCreate(ui, p)
                  [] ui.flow = "handleSaveTestSet" -> handleSaveTestSet(ui, p)
                  [] ui.flow = "api" -> apiCall(ui, p))

\* the remote service answers call c; the handler awaiting it resumes
RemoteResponds(c, answer) ==
  /\ c \in inflight
  /\ answer.ok \/ Cardinality(failedCalls) < MaxFailures
  /\ LET p == clientGet(answer)
         r == CASE handler.channel = "CREATE_TEST" -> CREATE_TEST(handler, p)
                [] handler.channel = "ADD_TEST_STEP" -> ADD_TEST_STEP(handler, p)
                [] handler.channel = "LINK_ISSUES" -> LINK_ISSUES(handler, p)
                [] handler.channel = "CREATE_TEST_SET" -> CREATE_TEST_SET(handler, p)
                [] handler.channel = "CREATE_EXECUTION" -> CREATE_EXECUTION(handler, p)
                [] handler.channel = "EXECUTE_WORKFLOW" -> EXECUTE_WORKFLOW(handler, p)
     IN  /\ handler' = r.h
         /\ inflight' = (inflight \ {c}) \cup SeqRange(r.calls)
         /\ issued' = issued \o r.calls
  /\ jira' = IF answer.ok THEN jiraApply(jira, c) ELSE jira
  /\ failedCalls' = IF answer.ok THEN failedCalls ELSE failedCalls \cup {c}
  /\ UNCHANGED <<ui, report>>

\* ------------------------------------------- field descriptors of a type
\* bound of the descriptor part of the model: field entries in one createmeta
\* response
MaxSchemaLen == 3

\* the keys getCommonFields shows by default (commonFieldKeys)
commonFieldKeys ==
  << "summary", "description", "priority", "assignee", "reporter", "labels",
     "components", "fixVersions", "duedate", "environment",
     "customfield_13900", "customfield_12425" >>

SeqToSet(seq) == { seq[n] : n \in 1..Len(seq) }

\* the field ids a createmeta response of the model can list: three of the
\* common ones and two that are not
FieldIds == {"summary", "description", "priority", "customfield_10001", "customfield_10002"}
RemoteFields == [fieldId : FieldIds, required : BOOLEAN]

RECURSIVE SeqsUpTo(_, _)
SeqsUpTo(S, n) ==
  IF n = 0 THEN {<<>>}
  ELSE LET shorter == SeqsUpTo(S, n - 1)
       IN  shorter \cup { Append(seq, x) : seq \in { q \in shorter : Len(q) = n - 1 }, x \in S }

\* createMeta: the body of GET createmeta/{project}/issuetypes/{typeId}
CreateMetas == { [values |-> v] : v \in SeqsUpTo(RemoteFields, MaxSchemaLen) }

\* MetadataService.normalizeField
normalizeField(field) == [key |-> field.fieldId, name |-> field.fieldId, required |-> field.required]

\* MetadataService.cacheIssueTypeMetadata: the IssueTypeMetadata it stores.
\* fields is the Map (a later entry of a key replaces an earlier one),
\* requiredFields the array of keys pushed.
cacheIssueTypeMetadata(issueTypeId, issueTypeName, createMeta) ==
  LET values == createMeta.values
      descriptor(n) == normalizeField(values[n])
      last(k) == CHOOSE n \in 1..Len(values) :
                   /\ descriptor(n).key = k
                   /\ \A m \in (n + 1)..Len(values) : descriptor(m).key # k
      isRequired(field) == normalizeField(field).required
      required == SelectSeq(values, isRequired)
  IN  [id |-> issueTypeId, name |-> issueTypeName,
       fields |-> [k \in { descriptor(n).key : n \in 1..Len(values) } |-> descriptor(last(k))],
       requiredFields |-> [n \in 1..Len(required) |-> normalizeField(required[n]).key]]

\* MetadataService.getCommonFields, given the type's metadata
getCommonFields(metadata) ==
  LET isRequiredOnly(key) == key \in DOMAIN metadata.fields /\ key \notin SeqToSet(commonFieldKeys)
      isPresent(key) == key \in DOMAIN metadata.fields
      requiredKeys == SelectSeq(metadata.requiredFields, isRequiredOnly)
      commonKeys == SelectSeq(commonFieldKeys, isPresent)
      requiredFields == [n \in 1..Len(requiredKeys) |-> metadata.fields[requiredKeys[n]]]
      commonFields == [n \in 1..Len(commonKeys) |-> metadata.fields[commonKeys[n]]]
  IN  requiredFields \o commonFields

VARIABLES
  \* the createmeta response for the issue type
  createMeta,
  \* the IssueTypeMetadata cached for the type, once cached
  typeMetadata,
  \* the list getCommonFields returned, once called
  fieldList

descriptorVars == <<createMeta, typeMetadata, fieldList>>

NoMetadata == [cached |-> FALSE]
NoFieldList == [returned |-> FALSE]

InitDescriptorVars ==
  /\ createMeta \in CreateMetas
  /\ typeMetadata = NoMetadata
  /\ fieldList = NoFieldList

\* the createmeta response is cached for the type
CacheIssueTypeMetadata ==
  /\ ~ typeMetadata.cached
  /\ typeMetadata' = [cached |-> TRUE, metadata |-> cacheIssueTypeMetadata("10", "Test", createMeta)]
  /\ UNCHANGED <<createMeta, fieldList>>

\* getCommonFields is called for the type
GetCommonFields ==
  /\ typeMetadata.cached
  /\ fieldList' = [returned |-> TRUE, fields |-> getCommonFields(typeMetadata.metadata)]
  /\ UNCHANGED <<createMeta, typeMetadata>>

\* --------------------------------------- metadata cache and field lookup
\* bounds of the metadata part of the model
\* JiraService instances a run constructs (the startup one included)
MaxFieldServices == 2
\* operations in a run: the startup initializeAuth, then handler invocations
MaxOps == 3

\* the issue types the remote service lists (GET /rest/api/2/issuetype)
RemoteIssueTypes == << [id |-> "10", name |-> "Test"], [id |-> "20", name |-> "Bug"] >>
TypeIds == { RemoteIssueTypes[n].id : n \in 1..Len(RemoteIssueTypes) }
\* the names the renderer asks fields for; the remote service has no Epic
IssueTypeNames == {"Test", "Bug", "Epic"}
\* initializeMetadata's commonIssueTypes
commonIssueTypes == <<"Test", "Test Set", "Test Execution">>

\* the createmeta response of the remote service for a type
RemoteCreateMeta(typeId) ==
  IF typeId = "10"
  THEN [values |-> << [fieldId |-> "summary", required |-> TRUE],
                      [fieldId |-> "customfield_10001", required |-> TRUE] >>]
  ELSE [values |-> << [fieldId |-> "summary", required |-> TRUE],
                      [fieldId |-> "description", required |-> FALSE] >>]

\* the ways a request can fail in transport
TransportFailures ==
  { AxiosResponseError(status, <<"remote message">>) : status \in {400, 401, 403, 404, 429, 500} }
    \cup { AxiosResponseError(500, <<>>), AxiosNoResponse, AxiosSetupError }
FieldAnswers == {RemoteDone} \cup { RemoteFails(t) : t \in TransportFailures }

\* issueTypes.find((it) => it.name === issueTypeName)
findIssueType(issueTypes, issueTypeName) ==
  LET hits == { n \in 1..Len(issueTypes) : issueTypes[n].name = issueTypeName }
  IN  IF hits = {} THEN [found |-> FALSE]
      ELSE [found |-> TRUE,
            issueType |-> issueTypes[CHOOSE n \in hits : \A m \in hits : n <= m]]

VARIABLES
  \* authHandlers' currentSession: 0 for null, else the session's JiraService
  currentSession,
  \* JiraService instances constructed so far
  constructed,
  \* per JiraService instance, its metadataInitialized flag
  metadataInitialized,
  \* whether registerHandlers has run (after the startup initializeAuth)
  handlersRegistered,
  \* the MetadataService singleton's cache: null, or the per-type metadata
  metadataCache,
  \* the operations: where each one is suspended, and the type whose
  \* createmeta its field lookup has requested
  op,
  \* the last reply a handler returned to the renderer, with the rejection
  \* that ended the operation if one did
  lastReply,
  \* the last rejection of a request: what axios rejected with and what the
  \* interceptor threw for it
  lastRejection,
  \* createmeta requests getFieldsForIssueType has issued, per type
  createMetaCalls,
  \* per type, the metadata first cached for it
  firstCached

fieldsVars == <<currentSession, constructed, metadataInitialized, handlersRegistered,
                metadataCache, op, lastReply, lastRejection, createMetaCalls, firstCached>>

FieldServices == 1..MaxFieldServices
Ops == 1..MaxOps

NoCache == [ready |-> FALSE]
NoOp == [state |-> "idle", kind |-> "", svc |-> 0, name |-> "", pc |-> "", i |-> 0, fetch |-> ""]
NoFieldsReply == [delivered |-> FALSE]
NoRejection == [seen |-> FALSE]

\* MetadataService.initializeCache: a new cache, with no issue type in it
initializeCache == [ready |-> TRUE, issueTypes |-> [t \in TypeIds |-> NoMetadata]]

\* MetadataService.getIssueTypeMetadata
getIssueTypeMetadata(cache, issueTypeId) ==
  IF ~ cache.ready THEN NoMetadata ELSE cache.issueTypes[issueTypeId]

\* the cache after cacheIssueTypeMetadata(issueType.id, issueType.name, createMeta)
cacheSet(cache, issueType, meta) ==
  [cache EXCEPT !.issueTypes[issueType.id] =
     [cached |-> TRUE, metadata |-> cacheIssueTypeMetadata(issueType.id, issueType.name, meta)]]

\* the first of commonIssueTypes, from position i on, that the remote lists
\* (0 if none): the next type initializeMetadata fetches the createmeta of
nextCommon(i) ==
  LET js == { j \in i..Len(commonIssueTypes) :
                findIssueType(RemoteIssueTypes, commonIssueTypes[j]).found }
  IN  IF js = {} THEN 0 ELSE CHOOSE j \in js : \A m \in js : j <= m

\* getCurrentSession's error when there is no session
NotAuthenticated == createError("AUTH_FAILED", "Not authenticated. Please restart the app.", "")

\* getCurrentSession, were it to fall back on the service constructed last
\* when no session is set
getCurrentSession_lastService(session) ==
  Fulfilled(IF session = 0 THEN constructed ELSE session)

\* getCurrentSession / getJiraService: the session's service, or the
\* AUTH_FAILED object thrown when currentSession is null
getCurrentSession(session) ==
  IF session = 0 THEN Rejected(NotAuthenticated) ELSE Fulfilled(session)

\* initializeMetadata's catch: the error it throws for the one it caught
initializeMetadataError(error) ==
  createError("JIRA_API_ERROR", "Failed to initialize metadata", error)

\* initializeMetadata's catch, were it to rethrow
initializeMetadataError_rethrow(error) == error

\* GET_AUTH_STATUS's catch
authStatusError(error) ==
  createError("AUTH_FAILED", "Failed to load credentials from .env", error.message)

\* a request's rejection as the ghost records it
rejectionOf(answer) ==
  [seen |-> TRUE, transport |-> answer.error, reason |-> handleError(answer.error)]

\* what a handler returns to the renderer, with the rejection behind it
FieldsReply(o, result, cause) ==
  [delivered |-> TRUE, channel |-> o.kind, name |-> o.name, result |-> result, cause |-> cause]

DoneOp(o) == [o EXCEPT !.state = "done", !.pc = ""]

\* The outcome of one run of the main process for operation o, as the new
\* values of what it can change: its own record, the singleton cache, the
\* flag of its JiraService, the reply (if it returns one), whether startup
\* went on to registerHandlers, and the createmeta requests issued.
Outcome(o, cache, flag, reply, registered, issuedFor) ==
  [o |-> o, cache |-> cache, flag |-> flag, reply |-> reply,
   registered |-> registered, issuedFor |-> issuedFor]

\* getFieldsForIssueType from `const issueTypes = await this.getIssueTypes()`
\* on: the request is issued and the operation waits for it
getFieldsForIssueType_lookup(o, cache, flag) ==
  Outcome([o EXCEPT !.pc = "fields.issuetype"], cache, flag, NoFieldsReply, FALSE, {})

\* the operation's code after initializeMetadata has returned normally
initializeMetadata_returned(o, cache, flag) ==
  IF o.kind = "GET_FIELDS_FOR_ISSUE_TYPE" THEN getFieldsForIssueType_lookup(o, cache, flag)
  ELSE IF o.kind = "GET_AUTH_STATUS"
  THEN Outcome(DoneOp(o), cache, flag,
               FieldsReply(o, [success |-> TRUE, data |-> [isAuthenticated |-> TRUE]], NoRejection),
               FALSE, {})
  ELSE Outcome(DoneOp(o), cache, flag, NoFieldsReply, TRUE, {})

\* the operation's code after initializeMetadata has thrown: the handlers'
\* catch blocks, and the rejected startup promise
initializeMetadata_threw(o, cache, flag, error, cause) ==
  IF o.kind = "GET_FIELDS_FOR_ISSUE_TYPE"
  THEN Outcome(DoneOp(o), cache, flag,
               FieldsReply(o, [success |-> FALSE, error |-> error], cause), FALSE, {})
  ELSE IF o.kind = "GET_AUTH_STATUS"
  THEN Outcome(DoneOp(o), cache, flag,
               FieldsReply(o, [success |-> FALSE, error |-> authStatusError(error)], cause),
               FALSE, {})
  ELSE Outcome(DoneOp(o), cache, flag, NoFieldsReply, FALSE, {})

\* initializeMetadata's loop over commonIssueTypes from position i on: it
\* waits for the createmeta of the next listed type, or finishes
initializeMetadata_loop(o, cache, i) ==
  LET j == nextCommon(i)
  IN  IF j = 0 THEN initializeMetadata_returned(o, cache, TRUE)
      ELSE Outcome([o EXCEPT !.pc = "init.createmeta", !.i = j], cache,
                   metadataInitialized[o.svc], NoFieldsReply, FALSE, {})

\* initializeMetadata resumed by the outcome of its Promise.all
initializeMetadata_bulk(o, answer) ==
  IF answer.ok THEN initializeMetadata_loop(o, initializeCache, 1)
  ELSE initializeMetadata_threw(o, metadataCache, metadataInitialized[o.svc],
                                initializeMetadataError(handleError(answer.error)),
                                rejectionOf(answer))

\* initializeMetadata resumed by the createmeta of commonIssueTypes[o.i]; a
\* failure is caught and logged
initializeMetadata_createmeta(o, answer) ==
  LET issueType == findIssueType(RemoteIssueTypes, commonIssueTypes[o.i]).issueType
      cache == IF answer.ok /\ metadataCache.ready
               THEN cacheSet(metadataCache, issueType, RemoteCreateMeta(issueType.id))
               ELSE metadataCache
  IN  initializeMetadata_loop(o, cache, o.i + 1)

\* getFieldsForIssueType resumed by the outcome of getIssueTypes
getFieldsForIssueType_issueTypes(o, answer) ==
  IF ~ answer.ok
  THEN Outcome(DoneOp(o), metadataCache, metadataInitialized[o.svc],
               FieldsReply(o, [success |-> FALSE, error |-> handleError(answer.error)],
                           rejectionOf(answer)), FALSE, {})
  ELSE LET hit == findIssueType(RemoteIssueTypes, o.name)
       IN  IF ~ hit.found
           THEN Outcome(DoneOp(o), metadataCache, metadataInitialized[o.svc],
                        FieldsReply(o, [success |-> FALSE,
                                        error |-> createError("NOT_FOUND", "Issue type not found", "")],
                                    NoRejection), FALSE, {})
           ELSE LET metadata == getIssueTypeMetadata(metadataCache, hit.issueType.id)
                IN  IF metadata.cached
                    THEN Outcome(DoneOp(o), metadataCache, metadataInitialized[o.svc],
                                 FieldsReply(o, [success |-> TRUE,
                                                 data |-> getCommonFields(metadata.metadata)],
                                             NoRejection), FALSE, {})
                    ELSE Outcome([o EXCEPT !.pc = "fields.createmeta", !.fetch = hit.issueType.id],
                                 metadataCache, metadataInitialized[o.svc], NoFieldsReply, FALSE,
                                 {hit.issueType.id})

\* getFieldsForIssueType resumed by the outcome of getCreateMetaByTypeId
getFieldsForIssueType_createmeta(o, answer) ==
  LET issueType == findIssueType(RemoteIssueTypes, o.name).issueType
  IN  IF ~ answer.ok
      THEN Outcome(DoneOp(o), metadataCache, metadataInitialized[o.svc],
                   FieldsReply(o, [success |-> FALSE, error |-> handleError(answer.error)],
                               rejectionOf(answer)), FALSE, {})
      ELSE IF ~ metadataCache.ready
      THEN Outcome(DoneOp(o), metadataCache, metadataInitialized[o.svc],
                   FieldsReply(o, [success |-> FALSE,
                                   error |-> createError("UNKNOWN", "Metadata cache not initialized", "")],
                               NoRejection), FALSE, {})
      ELSE LET cache == cacheSet(metadataCache, issueType, RemoteCreateMeta(issueType.id))
           IN  Outcome(DoneOp(o), cache, metadataInitialized[o.svc],
                       FieldsReply(o, [success |-> TRUE,
                                       data |-> getCommonFields(cache.issueTypes[issueType.id].metadata)],
                                   NoRejection), FALSE, {})

\* the test the renderer creates in this part of the model: one without steps
SessionTestInput == [rec |-> TestRec(1), steps |-> 0]

\* the CREATE_TEST handler resumed by the outcome of createTest
createTest_settled(o, answer) ==
  Outcome(DoneOp(o), metadataCache, metadataInitialized[o.svc],
          FieldsReply(o, CREATE_TEST(CREATE_TEST_invoke(SessionTestInput).h, clientGet(answer)).h.result,
                      IF answer.ok THEN NoRejection ELSE rejectionOf(answer)),
          FALSE, {})

\* the main process resumed for operation o by the outcome of its request
resumed(o, answer) ==
  IF o.pc = "init.bulk" THEN initializeMetadata_bulk(o, answer)
  ELSE IF o.pc = "init.createmeta" THEN initializeMetadata_createmeta(o, answer)
  ELSE IF o.pc = "fields.issuetype" THEN getFieldsForIssueType_issueTypes(o, answer)
  ELSE IF o.pc = "fields.createmeta" THEN getFieldsForIssueType_createmeta(o, answer)
  ELSE createTest_settled(o, answer)

\* the ghost of the first metadata cached per type
firstCachedAfter(cache) ==
  [t \in TypeIds |->
     IF firstCached[t].cached \/ ~ cache.ready THEN firstCached[t] ELSE cache.issueTypes[t]]

InitFieldsVars ==
  /\ currentSession = 1
  /\ constructed = 1
  /\ metadataInitialized = [s \in FieldServices |-> FALSE]
  /\ handlersRegistered = FALSE
  /\ metadataCache = NoCache
  /\ op = [o \in Ops |-> IF o = 1
                         THEN [state |-> "running", kind |-> "startup", svc |-> 1,
                               name |-> "", pc |-> "init.bulk", i |-> 0, fetch |-> ""]
                         ELSE NoOp]
  /\ lastReply = NoFieldsReply
  /\ lastRejection = NoRejection
  /\ createMetaCalls = [t \in TypeIds |-> 0]
  /\ firstCached = [t \in TypeIds |-> NoMetadata]

\* the effect of an Outcome on the state
Apply(n, out, rejection) ==
  /\ op' = [op EXCEPT ![n] = out.o]
  /\ metadataCache' = out.cache
  /\ metadataInitialized' = [metadataInitialized EXCEPT ![out.o.svc] = out.flag]
  /\ lastReply' = IF out.reply.delivered THEN out.reply ELSE lastReply
  /\ handlersRegistered' = (handlersRegistered \/ out.registered)
  /\ createMetaCalls' = [t \in TypeIds |->
                           createMetaCalls[t] + (IF t \in out.issuedFor THEN 1 ELSE 0)]
  /\ lastRejection' = IF rejection.seen THEN rejection ELSE lastRejection
  /\ firstCached' = firstCachedAfter(out.cache)

FreeOp(n) == op[n].state = "idle" /\ \A m \in 1..(n - 1) : op[m].state # "idle"

\* the renderer invokes GET_FIELDS_FOR_ISSUE_TYPE: getJiraService(), then
\* getFieldsForIssueType up to its first await
GET_FIELDS_FOR_ISSUE_TYPE(n, issueTypeName) ==
  /\ handlersRegistered
  /\ FreeOp(n)
  /\ LET o == [state |-> "running", kind |-> "GET_FIELDS_FOR_ISSUE_TYPE",
               svc |-> currentSession, name |-> issueTypeName, pc |-> "", i |-> 0, fetch |-> ""]
         jiraService == getCurrentSession(currentSession)
     IN  IF jiraService.settled = "rejected"
         THEN /\ op' = [op EXCEPT ![n] = DoneOp(o)]
              /\ lastReply' = FieldsReply(o, handlerResult(jiraService), NoRejection)
         ELSE /\ op' = [op EXCEPT ![n] = IF metadataInitialized[jiraService.value]
                                         THEN [o EXCEPT !.svc = jiraService.value, !.pc = "fields.issuetype"]
                                         ELSE [o EXCEPT !.svc = jiraService.value, !.pc = "init.bulk"]]
              /\ lastReply' = lastReply
  /\ UNCHANGED <<currentSession, constructed, metadataInitialized, handlersRegistered,
                 metadataCache, lastRejection, createMetaCalls, firstCached>>

\* the renderer invokes CREATE_TEST: getJiraService(), then createTest up to
\* its request
InvokeCreateTest(n) ==
  /\ handlersRegistered
  /\ FreeOp(n)
  /\ LET o == [state |-> "running", kind |-> "CREATE_TEST",
               svc |-> currentSession, name |-> "", pc |-> "", i |-> 0, fetch |-> ""]
         jiraService == getCurrentSession(currentSession)
     IN  IF jiraService.settled = "rejected"
         THEN /\ op' = [op EXCEPT ![n] = DoneOp(o)]
              /\ lastReply' = FieldsReply(o, handlerResult(jiraService), NoRejection)
         ELSE /\ op' = [op EXCEPT ![n] = [o EXCEPT !.svc = jiraService.value, !.pc = "create.createTest"]]
              /\ lastReply' = lastReply
  /\ UNCHANGED <<currentSession, constructed, metadataInitialized, handlersRegistered,
                 metadataCache, lastRejection, createMetaCalls, firstCached>>

\* the renderer invokes GET_AUTH_STATUS: with a session it answers at once,
\* without one it runs initializeAuth (a new JiraService, the session set,
\* then initializeMetadata up to its first await)
GET_AUTH_STATUS(n) ==
  /\ handlersRegistered
  /\ FreeOp(n)
  /\ LET o == [state |-> "running", kind |-> "GET_AUTH_STATUS",
               svc |-> currentSession, name |-> "", pc |-> "", i |-> 0, fetch |-> ""]
     IN  IF currentSession # 0
         THEN /\ op' = [op EXCEPT ![n] = DoneOp(o)]
              /\ lastReply' = FieldsReply(o, [success |-> TRUE, data |-> [isAuthenticated |-> TRUE]],
                                          NoRejection)
              /\ UNCHANGED <<currentSession, constructed>>
         ELSE /\ constructed < MaxFieldServices
              /\ constructed' = constructed + 1
              /\ currentSession' = constructed + 1
              /\ op' = [op EXCEPT ![n] = [o EXCEPT !.svc = constructed + 1, !.pc = "init.bulk"]]
              /\ lastReply' = lastReply
  /\ UNCHANGED <<metadataInitialized, handlersRegistered, metadataCache, lastRejection,
                 createMetaCalls, firstCached>>

\* the renderer invokes LOGOUT
LOGOUT ==
  /\ handlersRegistered
  /\ currentSession # 0
  /\ currentSession' = 0
  /\ UNCHANGED <<constructed, metadataInitialized, handlersRegistered, metadataCache, op,
                 lastReply, lastRejection, createMetaCalls, firstCached>>

\* the remote service settles the request operation n waits for
RemoteSettles(n, answer) ==
  /\ op[n].state = "running"
  /\ Apply(n, resumed(op[n], answer),
           IF answer.ok THEN NoRejection ELSE rejectionOf(answer))
  /\ UNCHANGED <<currentSession, constructed>>

\* ------------------------------------------------------- reference lists
\* bound of the reference-list part of the model: GET_PRIORITIES,
\* GET_COMPONENTS and GET_VERSIONS invocations in a run
MaxListOps == 2

\* the reference lists: priorities, components, versions
ListKinds == {"priorities", "components", "versions"}
\* what the remote service can hold for a list: nothing, or one entry
RemoteLists == { <<>>, <<"entry">> }
ListAnswers ==
  { RemoteDone, RemoteFails(AxiosNoResponse), RemoteFails(AxiosResponseError(500, <<>>)) }

VARIABLES
  \* the lists the remote service holds, per kind
  remoteList,
  \* MetadataService.cache with its priorities / components / versions
  referenceCache,
  \* initializeMetadata's Promise.all: "pending", "done" or "failed"
  bulk,
  \* the list handlers invoked: idle, awaiting the request of their getter,
  \* or returned
  listOp,
  \* the requests sent for each list
  listFetches,
  \* the last reply of a list handler
  listReply

referenceVars == <<remoteList, referenceCache, bulk, listOp, listFetches, listReply>>

ListOps == 1..MaxListOps
NoListReply == [delivered |-> FALSE]
IdleListOp == [state |-> "idle", kind |-> ""]

\* MetadataService.getPriorities / getComponents / getVersions:
\* this.cache?.<list> || []
cachedList(cache, kind) == IF cache.ready THEN cache.lists[kind] ELSE <<>>

\* JiraService.getPriorities / getComponents / getVersions up to the
\* request: served from the cache only when the cache is ready and the
\* cached list has an entry
servedFromCache(cache, kind) ==
  cache.ready /\ Len(cachedList(cache, kind)) > 0

\* Startup: initializeMetadata has called the three getters (the cache is
\* null, so each sends its request) and awaits their Promise.all.
InitReferenceVars ==
  /\ remoteList \in [ListKinds -> RemoteLists]
  /\ referenceCache = NoCache
  /\ bulk = "pending"
  /\ listOp = [n \in ListOps |-> IdleListOp]
  /\ listFetches = [kind \in ListKinds |-> 1]
  /\ listReply = NoListReply

\* the Promise.all settles: on success initializeCache stores the lists
BulkSettles(answer) ==
  /\ bulk = "pending"
  /\ IF answer.ok
     THEN /\ bulk' = "done"
          /\ referenceCache' = [ready |-> TRUE, lists |-> remoteList]
     ELSE /\ bulk' = "failed"
          /\ UNCHANGED referenceCache
  /\ UNCHANGED <<remoteList, listOp, listFetches, listReply>>

\* GET_PRIORITIES / GET_COMPONENTS / GET_VERSIONS invoked (the handlers are
\* registered once startup has succeeded): the getter returns the cached
\* list or sends its request
GET_LIST(n, kind) ==
  /\ bulk = "done"
  /\ listOp[n].state = "idle"
  /\ \A m \in 1..(n - 1) : listOp[m].state # "idle"
  /\ IF servedFromCache(referenceCache, kind)
     THEN /\ listOp' = [listOp EXCEPT ![n] = [state |-> "returned", kind |-> kind]]
          /\ listReply' = [delivered |-> TRUE, kind |-> kind, remote |-> FALSE,
                           result |-> [success |-> TRUE, data |-> cachedList(referenceCache, kind)]]
          /\ UNCHANGED listFetches
     ELSE /\ listOp' = [listOp EXCEPT ![n] = [state |-> "awaiting", kind |-> kind]]
          /\ listFetches' = [listFetches EXCEPT ![kind] = @ + 1]
          /\ UNCHANGED listReply
  /\ UNCHANGED <<remoteList, referenceCache, bulk>>

\* the getter's request settles and the handler returns
ListSettles(n, answer) ==
  /\ listOp[n].state = "awaiting"
  /\ listOp' = [listOp EXCEPT ![n].state = "returned"]
  /\ listReply' = [delivered |-> TRUE, kind |-> listOp[n].kind, remote |-> TRUE,
                   result |-> IF answer.ok
                              THEN [success |-> TRUE, data |-> remoteList[listOp[n].kind]]
                              ELSE [success |-> FALSE, error |-> handleError(answer.error)]]
  /\ UNCHANGED <<remoteList, referenceCache, bulk, listFetches>>

\* ------------------------------------------------- field value transforms
\* bound of the transform part of the model: entries of an array value
MaxItems == 2

\* JavaScript values: undefined, a string, an object with one property, an
\* array
Undefined == [t |-> "undefined"]
Str(s) == [t |-> "string", s |-> s]
Obj(key, v) == [t |-> "object", key |-> key, v |-> v]
Arr(items) == [t |-> "array", items |-> items]

\* !value
falsy(value) == value.t = "undefined" \/ (value.t = "string" /\ value.s = "")
\* Array.isArray(value)
isArray(value) == value.t = "array"
\* value[key]
prop(value, key) == IF value.t = "object" /\ value.key = key THEN value.v ELSE Undefined
\* a || b
or(a, b) == IF falsy(a) THEN b ELSE a
\* items.map(f)
map(f(_), items) == [n \in 1..Len(items) |-> f(items[n])]

\* FieldConfig: its type and its format, which is absent, an object
\* { key: "string" } or an array [{ key: "string" }]
NoFormat == [kind |-> "none", key |-> ""]
ObjectFormat(key) == [kind |-> "object", key |-> key]
ArrayFormat(key) == [kind |-> "array", key |-> key]
FieldConfigs ==
  { [form |-> "config", type |-> "string", format |-> NoFormat],
    [form |-> "config", type |-> "array", format |-> NoFormat] }
    \cup { [form |-> "config", type |-> "object", format |-> ObjectFormat(key)] : key \in {"name", "id"} }
    \cup { [form |-> "config", type |-> "array", format |-> ArrayFormat(key)] : key \in {"name", "id"} }

\* FieldDescriptor.schema as resolveFieldValue reads it
FieldSchemas ==
  { [form |-> "schema", type |-> type, items |-> ""] : type \in {"priority", "user", "option", "string"} }
    \cup { [form |-> "schema", type |-> "array", items |-> items] :
             items \in {"component", "version", "string"} }

\* the logical values of the model: no value, strings, arrays of strings
Scalars == { Str(s) : s \in {"", "High", "0"} }
NonEmptyScalars == { v \in Scalars : v.s # "" }
LogicalValues ==
  {Undefined} \cup Scalars \cup { Arr(items) : items \in SeqsUpTo(NonEmptyScalars, MaxItems) }

\* FieldValueTransformer.fromJira, with the first line returning the value
\* whatever it is
fromJira_asIs(value, config) == value

\* FieldValueTransformer.fromJira
fromJira(value, config) ==
  IF falsy(value) THEN Str("")
  ELSE IF config.format.kind = "object"
  THEN or(prop(value, config.format.key), or(prop(value, "id"), value))
  ELSE IF config.type = "array" /\ isArray(value)
  THEN IF config.format.kind = "array"
       THEN LET unwrap(item) == or(prop(item, config.format.key), or(prop(item, "id"), item))
            IN  Arr(map(unwrap, value.items))
       ELSE value
  ELSE value

\* FieldValueTransformer.toJira; undefined is "no entry in the payload"
toJira(value, config) ==
  IF falsy(value) THEN Undefined
  ELSE IF config.format.kind = "object" THEN Obj(config.format.key, value)
  ELSE IF config.type = "array" /\ config.format.kind = "array"
  THEN IF ~ isArray(value) THEN Undefined
       ELSE LET wrap(item) == Obj(config.format.key, item)
            IN  Arr(map(wrap, value.items))
  ELSE value

\* FieldMappingService.transformToJiraFormat for one entry of data whose
\* field is configured: the value stored in jiraData, undefined when the
\* entry is skipped
transformToJiraFormat(value, config) ==
  IF value.t = "undefined" \/ (value.t = "string" /\ value.s = "") THEN Undefined
  ELSE IF config.format.kind = "object" THEN Obj(config.format.key, value)
  ELSE IF config.format.kind = "array" /\ isArray(value)
  THEN LET wrap(item) == Obj(config.format.key, item)
       IN  Arr(map(wrap, value.items))
  ELSE value

\* JiraService.resolveFieldValue
resolveFieldValue(field, value) ==
  LET id(item) == Obj("id", item)
      name(item) == Obj("name", item)
  IN  IF falsy(value) THEN Undefined
      ELSE CASE field.type = "priority" -> Obj("id", value)
             [] field.type = "user" -> Obj("name", value)
             [] field.type = "array" ->
                  IF field.items = "component"
                  THEN IF isArray(value) THEN Arr(map(id, value.items)) ELSE Arr(<<>>)
                  ELSE IF field.items = "version"
                  THEN IF isArray(value) THEN Arr(map(name, value.items)) ELSE Arr(<<>>)
                  ELSE IF isArray(value) THEN value ELSE Arr(<<value>>)
             [] field.type = "option" -> Obj("value", value)
             [] OTHER -> value

VARIABLES
  \* the logical value given to a transformer
  logicalValue,
  \* the field's descriptor: a FieldConfig or a FieldDescriptor schema
  fieldConfig,
  \* what was applied and what it returned
  transformed

transformVars == <<logicalValue, fieldConfig, transformed>>

NotTransformed == [applied |-> "none"]

InitTransformVars ==
  /\ logicalValue \in LogicalValues
  /\ fieldConfig \in FieldConfigs \cup FieldSchemas
  /\ transformed = NotTransformed

\* toJira is applied to the value
ApplyToJira ==
  /\ transformed = NotTransformed /\ fieldConfig.form = "config"
  /\ transformed' = [applied |-> "toJira", wire |-> toJira(logicalValue, fieldConfig)]
  /\ UNCHANGED <<logicalValue, fieldConfig>>

\* the value is transformed to wire form and back
ApplyToJiraFromJira ==
  /\ transformed = NotTransformed /\ fieldConfig.form = "config"
  /\ transformed' = [applied |-> "toJira.fromJira",
                     wire |-> toJira(logicalValue, fieldConfig),
                     back |-> fromJira(toJira(logicalValue, fieldConfig), fieldConfig)]
  /\ UNCHANGED <<logicalValue, fieldConfig>>

\* toJira is applied to what toJira returned
ApplyToJiraTwice ==
  /\ transformed = NotTransformed /\ fieldConfig.form = "config"
  /\ transformed' = [applied |-> "toJira.toJira",
                     wire |-> toJira(logicalValue, fieldConfig),
                     again |-> toJira(toJira(logicalValue, fieldConfig), fieldConfig)]
  /\ UNCHANGED <<logicalValue, fieldConfig>>

\* transformToJiraFormat is applied to the value
ApplyTransformToJiraFormat ==
  /\ transformed = NotTransformed /\ fieldConfig.form = "config"
  /\ transformed' = [applied |-> "transformToJiraFormat",
                     wire |-> transformToJiraFormat(logicalValue, fieldConfig)]
  /\ UNCHANGED <<logicalValue, fieldConfig>>

\* transformToJiraFormat is applied to what it returned
ApplyTransformToJiraFormatTwice ==
  /\ transformed = NotTransformed /\ fieldConfig.form = "config"
  /\ transformed' = [applied |-> "transformToJiraFormat.transformToJiraFormat",
                     wire |-> transformToJiraFormat(logicalValue, fieldConfig),
                     again |-> transformToJiraFormat(
                                 transformToJiraFormat(logicalValue, fieldConfig), fieldConfig)]
  /\ UNCHANGED <<logicalValue, fieldConfig>>

\* resolveFieldValue is applied to the value
ApplyResolveFieldValue ==
  /\ transformed = NotTransformed /\ fieldConfig.form = "schema"
  /\ transformed' = [applied |-> "resolveFieldValue",
                     wire |-> resolveFieldValue(fieldConfig, logicalValue)]
  /\ UNCHANGED <<logicalValue, fieldConfig>>

\* ------------------------------------------------------- template store
\* VALIDATION_LIMITS.MAX_TEMPLATES
MAX_TEMPLATES == 100
\* the number of templates getDefaultTemplates returns
DefaultTemplateCount == 9
\* bounds of the template part of the model: the DELETE_TEMPLATE calls of a
\* run, and the stored ids the renderer saves again or deletes
MaxDeletes == 1
MaxEditedId == 1

\* a template: its id, the fields validateTemplate reads, and whether the
\* handler stamped it as an update of a stored template
Template(id, name, issueType, summary) ==
  [id |-> id, name |-> name, issueType |-> issueType, summary |-> summary, updated |-> FALSE]

\* getDefaultTemplates
getDefaultTemplates ==
  [n \in 1..DefaultTemplateCount |-> Template(n, "Smoke", "Test", "Test - {{feature}}")]

\* TemplateService.validateTemplate for a template without variables: the
\* error returned, or "" for null
validateTemplate(template) ==
  IF template.name = "" THEN "Template name is required"
  ELSE IF template.issueType = "" THEN "Template issue type is required"
  ELSE IF template.summary = "" THEN "Template must have a summary field"
  ELSE ""

\* templates.findIndex((t) => t.id === id), 0 for -1
findIndex(list, id) ==
  IF \E n \in 1..Len(list) : list[n].id = id
  THEN CHOOSE n \in 1..Len(list) :
         list[n].id = id /\ \A m \in 1..(n - 1) : list[m].id # id
  ELSE 0

VARIABLES
  \* the module-level array `templates`
  templates,
  \* the ids given to templates so far: a new template gets the next one
  templateIds,
  \* the reply of the last template handler
  templateReply,
  \* DELETE_TEMPLATE calls so far
  deletes

templateVars == <<templates, templateIds, templateReply, deletes>>

NoTemplateReply == [channel |-> "none", success |-> FALSE, error |-> ""]

\* the templates the renderer sends: a stored or deleted one edited, or a
\* new one, with the fields validateTemplate reads filled in or left empty
SaveInputs ==
  { Template(id, name, issueType, summary) :
      id \in (1..MaxEditedId) \cup {templateIds + 1},
      name \in {"", "Smoke"}, issueType \in {"", "Test"},
      summary \in {"", "Test - {{feature}}"} }

InitTemplateVars ==
  /\ templates = getDefaultTemplates
  /\ templateIds = DefaultTemplateCount
  /\ templateReply = NoTemplateReply
  /\ deletes = 0

\* the SAVE_TEMPLATE handler
SAVE_TEMPLATE(template) ==
  LET validationError == validateTemplate(template)
      existingIndex == findIndex(templates, template.id)
  IN  IF validationError # ""
      THEN /\ templateReply' = [channel |-> "SAVE_TEMPLATE", success |-> FALSE, error |-> validationError]
           /\ UNCHANGED <<templates, templateIds, deletes>>
      ELSE IF Len(templates) >= MAX_TEMPLATES
      THEN /\ templateReply' = [channel |-> "SAVE_TEMPLATE", success |-> FALSE,
                                error |-> "Maximum 100 templates allowed"]
           /\ UNCHANGED <<templates, templateIds, deletes>>
      ELSE /\ templates' = IF existingIndex > 0
                           THEN [templates EXCEPT ![existingIndex] = [template EXCEPT !.updated = TRUE]]
                           ELSE Append(templates, template)
           /\ templateIds' = IF template.id > templateIds THEN template.id ELSE templateIds
           /\ templateReply' = [channel |-> "SAVE_TEMPLATE", success |-> TRUE, error |-> ""]
           /\ UNCHANGED deletes

\* the DELETE_TEMPLATE handler
DELETE_TEMPLATE(templateId) ==
  /\ deletes < MaxDeletes
  /\ deletes' = deletes + 1
  /\ templates' = SelectSeq(templates, LAMBDA t : t.id # templateId)
  /\ templateReply' = [channel |-> "DELETE_TEMPLATE", success |-> TRUE, error |-> ""]
  /\ UNCHANGED templateIds

\*SPECS
vars ==
  <<gateVars, validatorVars, createVars, descriptorVars, fieldsVars, referenceVars, transformVars,
    templateVars>>

\* what each specification leaves unchanged
exceptGate ==
  <<validatorVars, createVars, descriptorVars, fieldsVars, referenceVars, transformVars,
    templateVars>>
exceptValidator ==
  <<gateVars, createVars, descriptorVars, fieldsVars, referenceVars, transformVars,
    templateVars>>
exceptCreate ==
  <<gateVars, validatorVars, descriptorVars, fieldsVars, referenceVars, transformVars,
    templateVars>>
exceptDescriptor ==
  <<gateVars, validatorVars, createVars, fieldsVars, referenceVars, transformVars,
    templateVars>>
exceptReference ==
  <<gateVars, validatorVars, createVars, descriptorVars, fieldsVars, transformVars,
    templateVars>>
exceptTransform ==
  <<gateVars, validatorVars, createVars, descriptorVars, fieldsVars, referenceVars,
    templateVars>>
exceptTemplate ==
  <<gateVars, validatorVars, createVars, descriptorVars, fieldsVars, referenceVars,
    transformVars>>
exceptFields ==
  <<gateVars, validatorVars, createVars, descriptorVars, referenceVars, transformVars,
    templateVars>>

\* the parts of the state a specification leaves alone
GateAtRest ==
  /\ handlers = "testHandlers"
  /\ nServices = 1
  /\ active = <<>>
  /\ queue = <<>>
  /\ job = <<>>
  /\ nextJob = 1
  /\ nSingles = 0
  /\ batch = <<>>
ValidatorAtRest ==
  /\ remoteIssue = <<>>
  /\ validationCache = <<>>
  /\ vcall = <<>>
  /\ lastReturn = NoReturn
  /\ lastIpc = NoIpc
  /\ apiCalls = <<>>
  /\ resolved = {}
  /\ lookupFailed = {}
  /\ mismatched = {}

CreateAtRest ==
  /\ ui = IdleUi
  /\ handler = NoHandler
  /\ inflight = {}
  /\ issued = <<>>
  /\ jira = <<>>
  /\ failedCalls = {}
  /\ report = NoReport

DescriptorAtRest ==
  /\ createMeta = <<>>
  /\ typeMetadata = NoMetadata
  /\ fieldList = NoFieldList

FieldsAtRest ==
  /\ currentSession = 0
  /\ constructed = 0
  /\ metadataInitialized = <<>>
  /\ handlersRegistered = FALSE
  /\ metadataCache = NoCache
  /\ op = <<>>
  /\ lastReply = NoFieldsReply
  /\ lastRejection = NoRejection
  /\ createMetaCalls = <<>>
  /\ firstCached = <<>>

ReferenceAtRest ==
  /\ remoteList = <<>>
  /\ referenceCache = NoCache
  /\ bulk = "none"
  /\ listOp = <<>>
  /\ listFetches = <<>>
  /\ listReply = NoListReply

TemplateAtRest ==
  /\ templates = <<>>
  /\ templateIds = 0
  /\ templateReply = NoTemplateReply
  /\ deletes = 0

TransformAtRest ==
  /\ logicalValue = Undefined
  /\ fieldConfig = NoFormat
  /\ transformed = NotTransformed

InitGate ==
  InitGateVars /\ ValidatorAtRest /\ CreateAtRest /\ DescriptorAtRest /\ FieldsAtRest /\ ReferenceAtRest /\ TransformAtRest
    /\ TemplateAtRest

NextGate ==
  \/ InvokeSingle /\ UNCHANGED exceptGate
  \/ \E b \in Batches, n \in 1..MaxKeys : validateIssues(b, n) /\ UNCHANGED exceptGate
  \/ \E j \in Jobs : RespondSingle(j) /\ UNCHANGED exceptGate
  \/ \E j \in Jobs, answer \in GateAnswers : RespondLookup(j, answer) /\ UNCHANGED exceptGate

InitValidate ==
  InitValidatorVars /\ GateAtRest /\ CreateAtRest /\ DescriptorAtRest /\ FieldsAtRest /\ ReferenceAtRest /\ TransformAtRest
    /\ TemplateAtRest

NextValidate ==
  \/ \E c \in Calls, id \in Identifiers, expected \in ExpectedChoices :
       validateIssueKey(c, id, expected) /\ UNCHANGED exceptValidator
  \/ \E c \in Calls, keys \in KeySets, expected \in ExpectedChoices :
       validateIssueKeys(c, keys, expected) /\ UNCHANGED exceptValidator
  \/ \E c \in Calls, id \in Identifiers, answer \in UNION { AnswersFor(k) : k \in RemoteKeys } :
       ValidateStoryReturns(c, id, answer) /\ UNCHANGED exceptValidator

InitCreate ==
  InitCreateVars /\ GateAtRest /\ ValidatorAtRest /\ DescriptorAtRest /\ FieldsAtRest /\ ReferenceAtRest /\ TransformAtRest
    /\ TemplateAtRest

NextCreate ==
  \/ \E forms \in Forms, linkedStory \in BOOLEAN :
       HandleCreateAllClicked(forms, linkedStory) /\ UNCHANGED exceptCreate
  \/ \E exec \in Executions : HandleCreateClicked(exec) /\ UNCHANGED exceptCreate
  \/ \E testSet \in TestSets : HandleSaveTestSetClicked(testSet) /\ UNCHANGED exceptCreate
  \/ \E testInput \in TestInputs : createTest(testInput) /\ UNCHANGED exceptCreate
  \/ \E workflow \in Workflows : executeWorkflow(workflow) /\ UNCHANGED exceptCreate
  \/ RendererResumes /\ UNCHANGED exceptCreate
  \/ \E c \in inflight, answer \in CreateAnswers :
       RemoteResponds(c, answer) /\ UNCHANGED exceptCreate

InitDescriptors ==
  InitDescriptorVars /\ GateAtRest /\ ValidatorAtRest /\ CreateAtRest /\ FieldsAtRest /\ ReferenceAtRest /\ TransformAtRest
    /\ TemplateAtRest

NextDescriptors ==
  \/ CacheIssueTypeMetadata /\ UNCHANGED exceptDescriptor
  \/ GetCommonFields /\ UNCHANGED exceptDescriptor

InitFields ==
  InitFieldsVars /\ GateAtRest /\ ValidatorAtRest /\ CreateAtRest /\ DescriptorAtRest /\ ReferenceAtRest /\ TransformAtRest
    /\ TemplateAtRest

NextFields ==
  \/ \E n \in Ops, issueTypeName \in IssueTypeNames :
       GET_FIELDS_FOR_ISSUE_TYPE(n, issueTypeName) /\ UNCHANGED exceptFields
  \/ \E n \in Ops : InvokeCreateTest(n) /\ UNCHANGED exceptFields
  \/ \E n \in Ops : GET_AUTH_STATUS(n) /\ UNCHANGED exceptFields
  \/ LOGOUT /\ UNCHANGED exceptFields
  \/ \E n \in Ops, answer \in FieldAnswers : RemoteSettles(n, answer) /\ UNCHANGED exceptFields

SpecFields == InitFields /\ [][NextFields]_vars

InitReference ==
  /\ InitReferenceVars /\ GateAtRest /\ ValidatorAtRest /\ CreateAtRest
  /\ DescriptorAtRest /\ FieldsAtRest /\ TransformAtRest /\ TemplateAtRest

NextReference ==
  \/ \E answer \in ListAnswers : BulkSettles(answer) /\ UNCHANGED exceptReference
  \/ \E n \in ListOps, kind \in ListKinds : GET_LIST(n, kind) /\ UNCHANGED exceptReference
  \/ \E n \in ListOps, answer \in ListAnswers : ListSettles(n, answer) /\ UNCHANGED exceptReference

SpecReference == InitReference /\ [][NextReference]_vars

InitTransform ==
  /\ InitTransformVars /\ GateAtRest /\ ValidatorAtRest /\ CreateAtRest
  /\ DescriptorAtRest /\ FieldsAtRest /\ ReferenceAtRest /\ TemplateAtRest

NextTransform ==
  \/ ApplyToJira /\ UNCHANGED exceptTransform
  \/ ApplyToJiraFromJira /\ UNCHANGED exceptTransform
  \/ ApplyToJiraTwice /\ UNCHANGED exceptTransform
  \/ ApplyTransformToJiraFormat /\ UNCHANGED exceptTransform
  \/ ApplyTransformToJiraFormatTwice /\ UNCHANGED exceptTransform
  \/ ApplyResolveFieldValue /\ UNCHANGED exceptTransform

SpecTransform == InitTransform /\ [][NextTransform]_vars

InitTemplates ==
  /\ InitTemplateVars /\ GateAtRest /\ ValidatorAtRest /\ CreateAtRest
  /\ DescriptorAtRest /\ FieldsAtRest /\ ReferenceAtRest /\ TransformAtRest

NextTemplates ==
  \/ \E template \in SaveInputs : SAVE_TEMPLATE(template) /\ UNCHANGED exceptTemplate
  \/ \E templateId \in 1..MaxEditedId : DELETE_TEMPLATE(templateId) /\ UNCHANGED exceptTemplate

SpecTemplates == InitTemplates /\ [][NextTemplates]_vars

\* The two caches filled on demand, each in a run of its own: a run
\* validates identifiers or it initializes metadata and looks fields up.
InitRacing == InitValidate \/ InitFields

NextRacing ==
  \/ DOMAIN vcall # {} /\ NextValidate
  \/ DOMAIN op # {} /\ NextFields

SpecRacing == InitRacing /\ [][NextRacing]_vars

SpecDescriptors == InitDescriptors /\ [][NextDescriptors]_vars

SpecCreate == InitCreate /\ [][NextCreate]_vars

SpecValidate == InitValidate /\ [][NextValidate]_vars

SpecGate == InitGate /\ [][NextGate]_vars

\* each instance's gate admits at most MAX_CONCURRENT_REQUESTS functions
GateRespected == \A s \in Services : Cardinality(active[s]) <= MAX_CONCURRENT_REQUESTS


\* --------------------------------------------------------------- claims
\* a wrapper of validateIssues that holds a slot while its validateIssue
\* waits in the same limiter's queue
WaitsForSlot(j) ==
  /\ job[j].kind = "outer"
  /\ \E i \in 1..Len(queue[job[j].svc]) : queue[job[j].svc][i] = job[j].peer

\* C1: at every instant at most MAX_CONCURRENT_REQUESTS remote calls are in
\* flight, counted over the whole process (all call sites, all instances).
C1_AtMostFiveInFlight == Cardinality(InFlight) <= MAX_CONCURRENT_REQUESTS

\* C2: no state is reachable in which all slots of a gate are held by tasks
\* that are themselves waiting for a slot of that gate (so every admitted
\* call, and validateIssues for any list of keys, can complete).
C2_NoGateDeadlock ==
  \A s \in Services :
    ~ ( /\ Cardinality(active[s]) = MAX_CONCURRENT_REQUESTS
        /\ \A j \in active[s] : WaitsForSlot(j) )

\* the lookups of request b that rejected
FailedLookups(b) == { k \in 1..batch[b].n : batch[b].settled[k].settled = "rejected" }

\* C4: a batch validation in which one identifier's lookup fails does not
\* fail as a whole: the reply is a success that holds a result for every
\* other identifier and records the failed one as exists:false.
C4_BatchSurvivesOneFailure ==
  \A b \in Batches :
    (batch[b].state = "done" /\ batch[b].n >= 2 /\ Cardinality(FailedLookups(b)) = 1) =>
      /\ batch[b].reply.sent
      /\ batch[b].reply.result.success
      /\ \A k \in 1..batch[b].n :
           /\ k \in DOMAIN batch[b].reply.result.data
           /\ (k \in FailedLookups(b) => ~ batch[b].reply.result.data[k].exists)


\* C3: a lookup the remote service answers with 404 reaches the caller of
\* VALIDATE_STORY as a success carrying exists:false for that key, not as
\* an error.
C3_NotFoundIsSuccess ==
  (lastIpc.delivered /\ lastIpc.answer = RemoteFails(AxiosResponseError(404, <<"Issue Does Not Exist">>))) =>
    /\ lastIpc.result.success
    /\ ~ lastIpc.result.data.exists
    /\ lastIpc.result.data.key = lastIpc.key

\* C9: once a validation of k has completed with a found or a not-found
\* answer, no later step issues a remote call for k: later validations of k
\* are served from the cache.
C9_ResolvedServedFromCache ==
  [][ \A k \in CacheKeys : k \in resolved => apiCalls'[k] = apiCalls[k] ]_vars

\* a call returned a result for k from the cache after the one remote call
\* that resolved k
C9_Witness ==
  /\ lastReturn.returned
  /\ \E id \in lastReturn.served :
       /\ toUpperCase(id) \in resolved
       /\ apiCalls[toUpperCase(id)] = 1
       /\ remoteIssue[toUpperCase(id)] = "absent"

\* the identifiers of the model that are not of the form letters, dash,
\* digits: "A1" has no dash
MalformedIdentifiers == {KEY_A}

\* C10: a batch validation of n identifiers of which exactly one is
\* malformed returns a result for each of the n, the malformed one's being
\* the format rejection and the other n-1 not, and no remote call is ever
\* issued for a malformed identifier.
C10_OneMalformedInBatch ==
  /\ \A id \in MalformedIdentifiers : apiCalls[toUpperCase(id)] = 0
  /\ (lastReturn.returned /\ Cardinality(lastReturn.keys \cap MalformedIdentifiers) = 1) =>
       /\ DOMAIN lastReturn.results = lastReturn.keys
       /\ \A id \in lastReturn.keys :
            (id \in MalformedIdentifiers) <=>
              (lastReturn.results[id] = InvalidResult(SimpleError(FORMAT_ERROR), ""))

\* a batch of two identifiers, one malformed, returned after the other's
\* remote check
C10_Witness ==
  /\ lastReturn.returned
  /\ Cardinality(lastReturn.keys) = MaxBatchLen
  /\ Cardinality(lastReturn.keys \cap MalformedIdentifiers) = 1
  /\ lastReturn.served = {}
  /\ \A id \in lastReturn.keys \ MalformedIdentifiers : apiCalls[toUpperCase(id)] >= 1


\* the addTestStep calls for rec that failed
FailedSteps(rec) == { c \in failedCalls : c.rec = rec /\ c.method = "addTestStep" }

\* C5: when api.createTest is given a test with three steps, the record is
\* created and exactly one addTestStep fails, the Result returned reports
\* the record as created with its key, two of the three steps are attached,
\* and the failed step is named (the Result's type has no place for a step,
\* so only the first two parts can be read off it).
C5_PartialStepsReported ==
  ( /\ report.shown /\ report.flow = "api" /\ report.channel = "CREATE_TEST"
    /\ ui.input.steps = 3
    /\ ui.input.rec \in jira.created
    /\ Cardinality(FailedSteps(ui.input.rec)) = 1 ) =>
      /\ report.result.success
      /\ report.result.data.key = ui.input.rec
      /\ Len(jira.steps[ui.input.rec]) = 2

\* the linkIssues calls that failed
FailedLinks == { c \in failedCalls : c.method = "linkIssues" }

\* C6: when handleCreate or handleSaveTestSet has created its record and a
\* linkIssues call for it has failed, what the user is told names the failed
\* link and does not count it among the links made.
C6_FailedLinkReported ==
  ( /\ report.shown /\ report.flow \in {"handleCreate", "handleSaveTestSet"}
    /\ report.key # NoKey
    /\ FailedLinks # {} ) =>
      /\ report.linkErrors # {}
      /\ report.linkedMsg = 0

\* the positions in `issued` of the createTest calls for rec
CreateCalls(rec) ==
  { n \in 1..Len(issued) : issued[n].rec = rec /\ issued[n].method = "createTest" }

\* handleCreateAll's part of C7: every form's creation is attempted once and
\* the counts partition the forms
C7_HandleCreateAllPartition ==
  (report.shown /\ report.flow = "handleCreateAll" /\ report.message # "incomplete") =>
    /\ \A i \in 1..ui.forms.n : Cardinality(CreateCalls(TestRec(i))) = 1
    /\ report.indicesToRemove \subseteq 1..ui.forms.n
    /\ Cardinality(report.indicesToRemove) = report.createdCount
    /\ report.createdCount + report.failedCount = ui.forms.n

\* EXECUTE_WORKFLOW's part of C7, for a workflow of two tests or more
C7_WorkflowPartition ==
  ( /\ report.shown /\ report.flow = "api" /\ report.channel = "EXECUTE_WORKFLOW"
    /\ ui.input.tests >= 2 ) =>
    /\ \A i \in 1..ui.input.tests : Cardinality(CreateCalls(TestRec(i))) = 1
    /\ report.result.success
    /\ Len(report.result.data.testKeys) = ui.input.tests

\* C7: a batch creation of n records attempts every record's creation
\* exactly once, going on after a record's failure, and its result
\* partitions the n records into created and failed.
C7_BatchPartition == C7_HandleCreateAllPartition /\ C7_WorkflowPartition

\* the calls issued for rec, in the order issued
CallsOf(rec) ==
  LET ForRec(c) == c.rec = rec
  IN  SelectSeq(issued, ForRec)

\* the addTestStep calls a channel's handler issued for rec
StepsOf(rec, channel) ==
  LET StepBy(c) == c.rec = rec /\ c.channel = channel /\ c.method = "addTestStep"
  IN  SelectSeq(issued, StepBy)

\* create, then attach, then link
Rank(c) ==
  CASE c.method \in {"createTest", "createTestSet", "createTestExecution"} -> 1
    [] c.method \in {"addTestStep", "addTestsToSet", "addTestsToExecution"} -> 2
    [] c.method = "linkIssues" -> 3

\* C8: the calls of one record are issued in the order create, attach step
\* 1..k, link; only the call issued last can be in flight, so no two calls
\* of a record are in flight together; and nothing follows the create call
\* unless the record was created.
C8_OneCallAtATimeInOrder ==
  \A rec \in Records :
    LET calls == CallsOf(rec)
    IN  /\ Cardinality({ c \in inflight : c.rec = rec }) <= 1
        /\ \A n \in 1..Len(calls) : (n = 1) <=> (Rank(calls[n]) = 1)
        /\ Len(calls) >= 2 => rec \in jira.created
        /\ \A n \in 1..(Len(calls) - 1) :
             /\ Rank(calls[n]) <= Rank(calls[n + 1])
             /\ calls[n] \notin inflight
        /\ \A channel \in {"CREATE_TEST", "EXECUTE_WORKFLOW", "ADD_TEST_STEP"} :
             \A n \in 1..Len(StepsOf(rec, channel)) : StepsOf(rec, channel)[n].step = n

\* EXECUTE_WORKFLOW has created a test, attached its steps one after the
\* other and has its link call in flight
C8_Witness ==
  /\ handler.channel = "EXECUTE_WORKFLOW"
  /\ \E i \in 1..MaxRecords :
       /\ Call("EXECUTE_WORKFLOW", TestRec(i), "linkIssues", 0, "story") \in inflight
       /\ Len(jira.steps[TestRec(i)]) >= 2
       /\ i >= 2


\* C11: validating, under an allowlist, an identifier whose issue exists
\* with a type outside the allowlist returns valid:false, never with "Issue
\* not found", and when answered from the cache with the message that names
\* the expected types and the issue's type.
C11_TypeMismatchNamed ==
  lastReturn.returned =>
    \A id \in lastReturn.keys \ MalformedIdentifiers :
      LET k == toUpperCase(id)
      IN  (remoteIssue[k] # "absent" /\ typeRejected(lastReturn.expected, remoteIssue[k])) =>
            /\ ~ lastReturn.results[id].valid
            /\ lastReturn.results[id].error.msg # "Issue not found"
            /\ id \in lastReturn.served =>
                 lastReturn.results[id] =
                   InvalidResult(MismatchError(lastReturn.expected, remoteIssue[k]), remoteIssue[k])


Occurrences(key, list) == Cardinality({ n \in 1..Len(list) : list[n].key = key })

\* C18: the list returned for an issue type has no field twice, and has
\* once every field of the schema that is in the common allowlist or is
\* listed as required, whether the schema lists it once or more than once.
C18_EachFieldOnce ==
  fieldList.returned =>
    \A key \in FieldIds :
      /\ Occurrences(key, fieldList.fields) <= 1
      /\ ( \E n \in 1..Len(createMeta.values) :
             /\ createMeta.values[n].fieldId = key
             /\ key \in SeqToSet(commonFieldKeys) \/ typeMetadata.metadata.fields[key].required )
           => Occurrences(key, fieldList.fields) = 1

\* C19: in the list returned for an issue type every required field comes
\* before every field that is not required, and the required fields are in
\* the order in which the schema declares them.
C19_RequiredFirst ==
  fieldList.returned =>
    LET list == fieldList.fields
        firstDeclared(key) == CHOOSE n \in 1..Len(createMeta.values) :
                                /\ createMeta.values[n].fieldId = key
                                /\ \A m \in 1..(n - 1) : createMeta.values[m].fieldId # key
    IN  \A i, j \in 1..Len(list) :
          /\ (list[i].required /\ ~ list[j].required) => i < j
          /\ (list[i].required /\ list[j].required /\ i < j) =>
               firstDeclared(list[i].key) <= firstDeclared(list[j].key)

\* the kinds of the fixed taxonomy (ErrorCode)
ErrorCodes ==
  {"AUTH_FAILED", "NETWORK_ERROR", "VALIDATION_ERROR", "JIRA_API_ERROR", "RATE_LIMIT",
   "NOT_FOUND", "FORBIDDEN", "UNKNOWN"}

\* the kind the taxonomy gives a transport outcome
KindOf(transport) ==
  IF "response" \in DOMAIN transport
  THEN CASE transport.response.status = 401 -> "AUTH_FAILED"
         [] transport.response.status = 403 -> "FORBIDDEN"
         [] transport.response.status = 404 -> "NOT_FOUND"
         [] transport.response.status = 429 -> "RATE_LIMIT"
         [] OTHER -> "JIRA_API_ERROR"
  ELSE IF "request" \in DOMAIN transport THEN "NETWORK_ERROR"
  ELSE "UNKNOWN"

\* C14: every rejection of a remote request carries the kind the taxonomy
\* gives its transport outcome (401 auth failure, 403 forbidden, 404
\* not-found, 429 rate-limited, another status generic remote error, no
\* response network failure, anything else unknown), and that kind is one
\* of the fixed taxonomy.
C14_ClassifiedByTransport ==
  lastRejection.seen =>
    /\ lastRejection.reason.code = KindOf(lastRejection.transport)
    /\ lastRejection.reason.code \in ErrorCodes

\* a request answered 429 has been rejected
C14_Witness ==
  /\ lastRejection.seen
  /\ "response" \in DOMAIN lastRejection.transport
  /\ lastRejection.transport.response.status = 429

\* C15: when a GET_FIELDS_FOR_ISSUE_TYPE call ends because a remote request
\* was rejected, the reply's error is the classified error of that
\* rejection: same kind, message and details.
C15_ForwardedUnchanged ==
  (/\ lastReply.delivered
   /\ lastReply.channel = "GET_FIELDS_FOR_ISSUE_TYPE"
   /\ lastReply.cause.seen)
    => /\ ~ lastReply.result.success
       /\ lastReply.result.error.code = lastReply.cause.reason.code
       /\ lastReply.result.error.message = lastReply.cause.reason.message
       /\ lastReply.result.error.details = lastReply.cause.reason.details

\* C20: the metadata first cached for an issue type is what the cache holds
\* for it in every later state.
C20_CachedTypeStays ==
  \A t \in DOMAIN firstCached :
    firstCached[t].cached =>
      /\ metadataCache.ready
      /\ metadataCache.issueTypes[t] = firstCached[t]

\* the validations of cache key k that wait for their api.validateStory
PendingValidations(k) ==
  { <<c, id>> \in (DOMAIN vcall) \X Identifiers :
      /\ vcall[c].state = "running"
      /\ id \in vcall[c].keys
      /\ toUpperCase(id) = k
      /\ vcall[c].slot[id].st = "awaiting" }

\* the field lookups that have requested the createmeta of type t
FieldLookups(t) == { n \in DOMAIN op : op[n].fetch = t }

\* C13: validations of one identifier that start before any of them has
\* completed (the key is not cached yet) have each issued their own
\* api.validateStory call, and once they have all completed the cache holds
\* an entry for the key; every field lookup that found its issue type
\* uncached has issued its own createmeta request, and when such a request
\* succeeds the cache holds the type's metadata.
C13_RacingRequestsEachCall ==
  /\ [](\A k \in DOMAIN apiCalls :
         /\ ~ validationCache[k].cached => apiCalls[k] = Cardinality(PendingValidations(k))
         /\ apiCalls[k] >= Cardinality(PendingValidations(k))
         /\ (apiCalls[k] > 0 /\ PendingValidations(k) = {}) => validationCache[k].cached)
  /\ [](\A t \in DOMAIN createMetaCalls :
         createMetaCalls[t] = Cardinality(FieldLookups(t)))
  /\ [][\A n \in DOMAIN op :
          (/\ op[n].pc = "fields.createmeta"
           /\ op'[n].state = "done"
           /\ lastReply'.result.success)
            => (metadataCache'.ready /\ metadataCache'.issueTypes[op[n].fetch].cached)]_vars

\* two validations of one key have raced: two calls were issued for it, all
\* have completed, and the key is cached
C13_Witness ==
  \E k \in DOMAIN apiCalls :
    /\ apiCalls[k] >= 2
    /\ PendingValidations(k) = {}
    /\ validationCache[k].cached

\* two field lookups of one type have raced: two createmeta requests were
\* issued for it and both lookups have returned
C13_FieldLookupsRaced ==
  \E t \in DOMAIN createMetaCalls :
    /\ createMetaCalls[t] >= 2
    /\ \A n \in FieldLookups(t) : op[n].state = "done"
    /\ metadataCache.ready /\ metadataCache.issueTypes[t].cached

\* the requests the flows make to create, attach and link
ForwardMethods ==
  {"createTest", "createTestSet", "createTestExecution", "addTestStep", "linkIssues",
   "addTestsToSet", "addTestsToExecution"}

C16_FailureIsClassified ==
  (lastIpc.delivered /\ ~ lastIpc.result.success) =>
    /\ "code" \in DOMAIN lastIpc.result.error
    /\ lastIpc.result.error.code \in ErrorCodes

\* C26: the cache holds a negative entry for a key only if the remote
\* service has answered a lookup of it with "not found" (404): the key is
\* absent there and one of its lookups was answered truthfully.
C26_NegativeOnlyIfNotFound ==
  \A k \in DOMAIN validationCache :
    (validationCache[k].cached /\ ~ validationCache[k].valid) =>
      (remoteIssue[k] = "absent" /\ k \in resolved)

\* the addTestStep calls issued for rec, by whichever handler
AddStepCalls(rec) ==
  LET IsStep(c) == c.rec = rec /\ c.method = "addTestStep"
  IN  SelectSeq(issued, IsStep)

\* C25: when handleCreateAll has finished and no remote call failed, each
\* test it created with n steps has had exactly n addTestStep calls issued
\* for it, for the steps 1..n in this order, and has its n steps attached
\* once each.
C25_EachStepOnce ==
  ( /\ report.shown /\ report.flow = "handleCreateAll"
    /\ failedCalls = {}
    /\ ui.forms.steps >= 1 ) =>
      \A rec \in jira.created :
        /\ Len(AddStepCalls(rec)) = ui.forms.steps
        /\ \A n \in 1..Len(AddStepCalls(rec)) : AddStepCalls(rec)[n].step = n
        /\ jira.steps[rec] = [n \in 1..ui.forms.steps |-> n]

\* the id of the listed issue type of this name ("" if the remote lists none)
TypeIdOf(issueTypeName) ==
  LET hit == findIssueType(RemoteIssueTypes, issueTypeName)
  IN  IF hit.found THEN hit.issueType.id ELSE ""

\* C21: a GET_FIELDS_FOR_ISSUE_TYPE request for a type whose metadata is
\* cached, made on a session whose service is initialized, is answered at
\* once from the cache: it returns the field descriptors without waiting
\* for a remote call.
C21_CachedTypeServedFromMemory ==
  [][\A n \in DOMAIN op :
       ( /\ op[n].state = "idle"
         /\ op'[n].kind = "GET_FIELDS_FOR_ISSUE_TYPE"
         /\ currentSession # 0
         /\ metadataInitialized[currentSession]
         /\ TypeIdOf(op'[n].name) # ""
         /\ getIssueTypeMetadata(metadataCache, TypeIdOf(op'[n].name)).cached )
        => ( /\ op'[n].state = "done"
             /\ lastReply'.result.success )]_vars

\* C22: once the cache is initialized no further request is sent for a
\* reference list (each list has been requested once, by the
\* initialization), and every list handler's reply comes from the cache.
C22_ListsFetchedOnce ==
  referenceCache.ready =>
    /\ \A kind \in DOMAIN listFetches : listFetches[kind] <= 1
    /\ listReply.delivered =>
         (~ listReply.remote /\ listReply.result.success
          /\ listReply.result.data = referenceCache.lists[listReply.kind])

\* an initializeAuth is in progress for the current session
InitializingSession ==
  \E n \in DOMAIN op :
    /\ op[n].state = "running"
    /\ op[n].kind \in {"startup", "GET_AUTH_STATUS"}
    /\ op[n].svc = currentSession

\* C27: when the handlers are registered, a session is set (getCurrentSession
\* succeeds) and no initializeAuth is in progress for it, the metadata
\* initialization of the session's service has completed: the cache is
\* initialized and the service's metadataInitialized flag is set.  In
\* particular a failed initializeAuth leaves no session.
C27_SessionOnlyIfInitialized ==
  (handlersRegistered /\ currentSession # 0 /\ ~ InitializingSession) =>
    (metadataCache.ready /\ metadataInitialized[currentSession])

\* the handlers of test and metadata operations in this part of the model
SessionOperations == {"GET_FIELDS_FOR_ISSUE_TYPE", "CREATE_TEST"}

\* C28: a test or metadata handler invoked while no session is set returns
\* at once (it sends no request) a failure of kind AUTH_FAILED; and a
\* session is only set again by a GET_AUTH_STATUS invocation.
C28_NoSessionAuthFailed ==
  [][/\ \A n \in DOMAIN op :
          ( /\ op[n].state = "idle"
            /\ op'[n].kind \in SessionOperations
            /\ currentSession = 0 )
           => ( /\ op'[n].state = "done"
                /\ lastReply'.channel = op'[n].kind
                /\ ~ lastReply'.result.success
                /\ lastReply'.result.error.code = "AUTH_FAILED"
                /\ createMetaCalls' = createMetaCalls )
     /\ (currentSession = 0 /\ currentSession' # 0)
          => \E n \in DOMAIN op : op[n].state = "idle" /\ op'[n].kind = "GET_AUTH_STATUS"
    ]_vars

\* CREATE_TEST, invoked after LOGOUT, has replied AUTH_FAILED
C28_Witness ==
  /\ currentSession = 0
  /\ lastReply.delivered
  /\ lastReply.channel = "CREATE_TEST"
  /\ ~ lastReply.result.success
  /\ lastReply.result.error.code = "AUTH_FAILED"

\* the descriptors of single-reference shape and of list-of-reference shape
SingleReference(config) == config.form = "config" /\ config.format.kind = "object"
ListOfReference(config) ==
  \/ config.form = "config" /\ config.type = "array" /\ config.format.kind = "array"
  \/ config.form = "schema" /\ config.type = "array" /\ config.items \in {"component", "version"}

C24_EmptyListOmitted ==
  ( /\ transformed.applied \in {"toJira", "transformToJiraFormat", "resolveFieldValue"}
    /\ ListOfReference(fieldConfig)
    /\ logicalValue = Arr(<<>>) ) =>
      transformed.wire = Undefined

\* C30: for a descriptor of single-reference or list-of-reference shape,
\* applying the logical-to-wire transform to its own result gives that
\* result again.
C30_ToWireIdempotent ==
  ( /\ transformed.applied \in {"toJira.toJira", "transformToJiraFormat.transformToJiraFormat"}
    /\ (SingleReference(fieldConfig) \/ ListOfReference(fieldConfig)) ) =>
      transformed.again = transformed.wire

\* C29: a SAVE_TEMPLATE of a valid template whose id is stored succeeds,
\* puts the template in the place of the stored one and leaves the number
\* of stored templates unchanged, whatever the size of the store.
C29_UpdateInPlaceAtAnySize ==
  [][ \A template \in SaveInputs :
        ( /\ SAVE_TEMPLATE(template)
          /\ validateTemplate(template) = ""
          /\ findIndex(templates, template.id) > 0 ) =>
            /\ templateReply'.success
            /\ Len(templates') = Len(templates)
            /\ templates'[findIndex(templates, template.id)].summary = template.summary
            /\ templates'[findIndex(templates, template.id)].updated ]_vars
====
